---- MODULE Spec2Model ----
(***************************************************************************)
(* P2S (Proposer in 2 Steps) consensus engine: the commit block (B1, PHTs) *)
(* / reveal block (B2, MTs) pipeline of consensus/p2s.                     *)
(*                                                                         *)
(* Conventions of the model                                                *)
(*  - a byte string is a sequence of symbols.  <<"b", n>> is one plain     *)
(*    byte; <<"addr", a>> is the 20 bytes of address a; <<"sha256", m>>,   *)
(*    <<"keccak", m>>, <<"exp2", m>> and <<"hdr", h>> are the 32 bytes of  *)
(*    a digest of m: digests are kept symbolic, i.e. the hash functions    *)
(*    are injective on their byte input and never hit a given constant.    *)
(*  - amounts are in units of 10^15 wei, fee prices in gwei, scores in     *)
(*    units of 1/ScoreOne (exact decimal arithmetic in place of float64).  *)
(*  - an error is the text of errors.New(...); Nil is "no error".          *)
(***************************************************************************)
EXTENDS Integers, Sequences, FiniteSets, TLC

\* ------------------------------------------------------------------ bounds
\* the last reading of the wall clock, in seconds
MaxTime == 2
\* the most transactions in a batch of pending transactions
MaxBatch == 2
\* the capacity (maxSize) of the cache that is filled to capacity; NewP2SCache
\* sets 1000
CacheCapacity == 2

Nil == "nil"

\* a Go run-time panic (index or slice bounds out of range): the call does not
\* return; deferred unlocks run and the panic propagates to the caller
Panic == "panic: runtime error: index out of range"

\* ------------------------------------------------------------- byte strings
Byte(n) == <<"b", n>>

ZeroBytes(n) == [i \in 1..n |-> Byte(0)]

RECURSIVE BigBytes(_)
\* big.Int.Bytes(): big-endian magnitude without leading zeros (0 is empty)
BigBytes(n) ==
    IF n = 0 THEN <<>>
    ELSE IF n < 0 THEN BigBytes(0 - n)
    ELSE Append(BigBytes(n \div 256), Byte(n % 256))

RECURSIVE LittleEndian(_, _)
\* for i := 0; i < k; i++ { bytes[i] = byte(n >> (8 * i)) }
LittleEndian(n, k) ==
    IF k = 0 THEN <<>>
    ELSE <<Byte(n % 256)>> \o LittleEndian(n \div 256, k - 1)

SymLen(s) ==
    IF s[1] = "b" THEN 1 ELSE IF s[1] = "addr" THEN 20 ELSE 32

RECURSIVE ByteLen(_)
\* len() of a byte string
ByteLen(bs) == IF bs = <<>> THEN 0 ELSE SymLen(Head(bs)) + ByteLen(Tail(bs))

RECURSIVE Concat(_)
\* hasher.Write(d) for each d of a list of byte strings
Concat(list) == IF list = <<>> THEN <<>> ELSE Head(list) \o Concat(Tail(list))

SHA256(bs) == << <<"sha256", bs>> >>

Keccak256(bs) == << <<"keccak", bs>> >>

ZeroHash == ZeroBytes(32)

AddressBytes(a) == IF a = "zero" THEN ZeroBytes(20) ELSE << <<"addr", a>> >>

\* ------------------------------------------------------- commitment scheme
CommitErr == "no data to commit"

\* PedersenCommitment.Commit: g^sha256(data...) mod p, as bytes
Commit(data) ==
    IF Len(data) = 0 THEN [err |-> CommitErr, commitment |-> <<>>]
    ELSE [err |-> Nil, commitment |-> << <<"exp2", SHA256(Concat(data))>> >>]

\* PedersenCommitment.Verify that ignores Commit's error (a fault)
CommitVerifyNoErr(commitment, data) ==
    LET c == Commit(data)
    IN  commitment = c.commitment

\* PedersenCommitment.Verify
CommitVerify(commitment, data) ==
    LET c == Commit(data)
    IN  IF c.err # Nil THEN FALSE ELSE commitment = c.commitment

\* the five hidden fields as CreatePHT / ValidatePHT / CreateMT lay them out
HiddenData(recipient, value, callData, txType, gasLimit) ==
    << AddressBytes(recipient), BigBytes(value), callData,
       <<Byte(txType)>>, <<Byte(gasLimit % 256)>> >>

\* ----------------------------------------------------------- proof system
ProveErrNoData == "no data to prove"
ProveErrNotFound == "commitment not found in tree"

RECURSIVE NextPower(_, _)
\* nextPower := 1; for nextPower < n { nextPower <<= 1 }
NextPower(p, n) == IF p < n THEN NextPower(2 * p, n) ELSE p

\* MerkleProofSystem.padToPowerOfTwo: pads with make([]byte, 32)
padToPowerOfTwo(data) ==
    LET n == Len(data)
    IN  IF n = 0 THEN data
        ELSE [i \in 1..NextPower(1, n) |-> IF i <= n THEN data[i] ELSE ZeroBytes(32)]

RECURSIVE BuildNodes(_, _, _)
\* the loop "for i := len(paddedData); i < len(tree); i++" of buildMerkleTree,
\* i and the child indices 0-based as in the code, tree[j] being tree[j + 1]
\* here.  A child index beyond the tree is an index-out-of-range panic; a
\* child not yet written is still nil (empty).
BuildNodes(tree, n, i) ==
    IF i >= Len(tree) THEN [panic |-> FALSE, tree |-> tree]
    ELSE LET l == 2 * i - n
             r == 2 * i - n + 1
         IN  IF l >= Len(tree) \/ r >= Len(tree)
             THEN [panic |-> TRUE, tree |-> tree]
             ELSE BuildNodes([tree EXCEPT ![i + 1] = SHA256(tree[l + 1] \o tree[r + 1])],
                             n, i + 1)

\* MerkleProofSystem.buildMerkleTree
buildMerkleTree(data) ==
    IF Len(data) = 0 THEN [panic |-> FALSE, tree |-> <<>>]
    ELSE LET padded == padToPowerOfTwo(data)
             n == Len(padded)
             tree0 == [j \in 1..(2 * n - 1) |-> IF j <= n THEN padded[j] ELSE <<>>]
         IN  BuildNodes(tree0, n, n)

\* MerkleProofSystem.findLeafIndex: first index (0-based) holding the
\* commitment, -1 when there is none
findLeafIndex(tree, commitment) ==
    LET hits == {i \in 1..Len(tree) : tree[i] = commitment}
    IN  IF hits = {} THEN -1
        ELSE (CHOOSE i \in hits : \A j \in hits : i <= j) - 1

\* currentIndex ^ 1
Xor1(i) == IF i % 2 = 0 THEN i + 1 ELSE i - 1

RECURSIVE ProofFrom(_, _, _)
\* the loop of generateMerkleProof (0-based currentIndex)
ProofFrom(tree, currentIndex, proof) ==
    IF currentIndex < Len(tree) - 1
    THEN ProofFrom(tree, (currentIndex + Len(tree)) \div 2,
                   proof \o tree[Xor1(currentIndex) + 1])
    ELSE proof

\* MerkleProofSystem.generateMerkleProof
generateMerkleProof(tree, leafIndex) == ProofFrom(tree, leafIndex, <<>>)

\* MerkleProofSystem.Prove
Prove(commitment, data) ==
    IF Len(data) = 0 THEN [err |-> ProveErrNoData, proof |-> <<>>]
    ELSE LET built == buildMerkleTree(data)
         IN  IF built.panic THEN [err |-> Panic, proof |-> <<>>]
             ELSE LET leafIndex == findLeafIndex(built.tree, commitment)
                  IN  IF leafIndex = -1
                      THEN [err |-> ProveErrNotFound, proof |-> <<>>]
                      ELSE [err |-> Nil,
                            proof |-> generateMerkleProof(built.tree, leafIndex)]

RECURSIVE TakeBytes(_, _)
\* the longest prefix of whole symbols of bs that is at most k bytes long
TakeBytes(bs, k) ==
    IF bs = <<>> \/ SymLen(Head(bs)) > k THEN <<>>
    ELSE <<Head(bs)>> \o TakeBytes(Tail(bs), k - SymLen(Head(bs)))

RECURSIVE VerifyFrom(_, _, _)
\* the loop of verifyMerkleProof: sibling := proof[proofIndex : proofIndex+32].
\* A window that runs past the proof's end is a slice-bounds panic (the
\* proof's capacity is taken to be its length); "true"/"false" otherwise.
VerifyFrom(rest, current, root) ==
    IF rest = <<>> THEN (IF current = root THEN "true" ELSE "false")
    ELSE LET sibling == TakeBytes(rest, 32)
         IN  IF ByteLen(sibling) < 32 THEN Panic
             ELSE VerifyFrom(SubSeq(rest, Len(sibling) + 1, Len(rest)),
                             SHA256(current \o sibling), root)

\* MerkleProofSystem.verifyMerkleProof
verifyMerkleProof(proof, commitment, tree) ==
    IF Len(proof) = 0 THEN "false"
    ELSE VerifyFrom(proof, commitment, tree[Len(tree)])

\* MerkleProofSystem.Verify: "true", "false" or Panic
ProofVerify(proof, commitment, data) ==
    IF Len(data) = 0 THEN "false"
    ELSE LET built == buildMerkleTree(data)
         IN  IF built.panic THEN Panic
             ELSE verifyMerkleProof(proof, commitment, built.tree)

\* ------------------------------------------------------------ transactions
\* types.Sender(...) failing on a transaction whose signature does not recover
SenderErr == "invalid transaction v, r, s values"

\* tx.Hash()
TxHashOf(tx) == << <<"txhash", tx>> >>

\* AntiMEVNonce.Generate: Keccak256 of time.Now().String(); the reading is the
\* second `now` plus the sub-second reading k of the call
GenerateNonce(now, k) == Keccak256(<< <<"clock", <<now, k>> >> >>)

\* PHTManager.CreatePHT; tx.From = "badsig" is a transaction whose sender
\* cannot be recovered, tx.To = "nil" a contract creation
CreatePHT(tx, now, k) ==
    IF tx.From = "badsig" THEN [err |-> SenderErr, pht |-> Nil]
    ELSE LET recipient == IF tx.To = "nil" THEN "zero" ELSE tx.To
             c == Commit(HiddenData(recipient, tx.Value, tx.Data, tx.Type, tx.Gas))
         IN  IF c.err # Nil THEN [err |-> c.err, pht |-> Nil]
             ELSE [err |-> Nil,
                   pht |-> [Sender |-> tx.From,
                            GasPrice |-> tx.GasPrice,
                            Commitment |-> c.commitment,
                            Nonce |-> GenerateNonce(now, k),
                            Timestamp |-> now,
                            Recipient |-> recipient,
                            Value |-> tx.Value,
                            CallData |-> tx.Data,
                            TxType |-> tx.Type,
                            GasLimit |-> tx.Gas,
                            TxHash |-> TxHashOf(tx)]]

\* PHTTransaction.Hash: sha256 over the visible fields only
PHTHash(pht) ==
    SHA256(AddressBytes(pht.Sender) \o BigBytes(pht.GasPrice) \o pht.Commitment
           \o pht.Nonce \o LittleEndian(pht.Timestamp, 8))

\* PHTManager.ValidatePHT without the commitment check (a fault)
ValidatePHTNoCommit(pht) ==
    IF Len(pht.Nonce) = 0 THEN "missing anti-MEV nonce"
    ELSE IF pht.Timestamp = 0 THEN "missing timestamp"
    ELSE IF pht.GasPrice <= 0 THEN "invalid gas price"
    ELSE Nil

\* PHTManager.ValidatePHT
ValidatePHT(pht) ==
    IF ~CommitVerify(pht.Commitment,
                     HiddenData(pht.Recipient, pht.Value, pht.CallData,
                                pht.TxType, pht.GasLimit))
    THEN "invalid commitment"
    ELSE IF Len(pht.Nonce) = 0 THEN "missing anti-MEV nonce"
    ELSE IF pht.Timestamp = 0 THEN "missing timestamp"
    ELSE IF pht.GasPrice <= 0 THEN "invalid gas price"
    ELSE Nil

\* MTManager.CreateMT
CreateMT(pht, now) ==
    LET p == Prove(pht.Commitment,
                   HiddenData(pht.Recipient, pht.Value, pht.CallData,
                              pht.TxType, pht.GasLimit))
    IN  IF p.err # Nil THEN [err |-> p.err, mt |-> Nil]
        ELSE [err |-> Nil,
              mt |-> [Recipient |-> pht.Recipient,
                      Value |-> pht.Value,
                      CallData |-> pht.CallData,
                      TxType |-> pht.TxType,
                      GasLimit |-> pht.GasLimit,
                      PHTHash |-> PHTHash(pht),
                      Proof |-> p.proof,
                      Timestamp |-> now,
                      TxHash |-> pht.TxHash]]

\* MTTransaction.Hash
MTHash(mt) ==
    SHA256(AddressBytes(mt.Recipient) \o BigBytes(mt.Value) \o mt.CallData
           \o <<Byte(mt.TxType)>> \o LittleEndian(mt.GasLimit, 8)
           \o mt.PHTHash \o LittleEndian(mt.Timestamp, 8))

\* MTManager.VerifyMT
VerifyMT(mt, pht) ==
    LET valid == ProofVerify(mt.Proof, pht.Commitment,
                             HiddenData(mt.Recipient, mt.Value, mt.CallData,
                                        mt.TxType, mt.GasLimit))
    IN  IF valid = Panic THEN Panic
        ELSE IF valid # "true" THEN "invalid proof"
        ELSE IF mt.PHTHash # PHTHash(pht) THEN "PHT hash mismatch"
        ELSE IF mt.Recipient # pht.Recipient THEN "recipient mismatch"
        ELSE IF mt.Value # pht.Value THEN "value mismatch"
        ELSE IF mt.CallData # pht.CallData THEN "call data mismatch"
        ELSE IF mt.TxType # pht.TxType THEN "transaction type mismatch"
        ELSE IF mt.GasLimit # pht.GasLimit THEN "gas limit mismatch"
        ELSE Nil

\* MTManager.ValidateMT
ValidateMT(mt) ==
    IF Len(mt.Proof) = 0 THEN "missing proof"
    ELSE IF mt.Timestamp = 0 THEN "missing timestamp"
    ELSE IF mt.PHTHash = ZeroHash THEN "missing PHT hash"
    ELSE IF mt.TxHash = ZeroHash THEN "missing transaction hash"
    ELSE IF mt.Value < 0 THEN "negative value"
    ELSE IF mt.GasLimit = 0 THEN "zero gas limit"
    ELSE Nil

\* ------------------------------------------------------------ MEV detector
\* the score 1.0
ScoreOne == 1200

HexChars == <<"0", "1", "2", "3", "4", "5", "6", "7",
              "8", "9", "a", "b", "c", "d", "e", "f">>

RECURSIVE Bytes2Hex(_)
\* common.Bytes2Hex: two lower-case hex digits per byte, no "0x" prefix
Bytes2Hex(bs) ==
    IF bs = <<>> THEN <<>>
    ELSE <<HexChars[(Head(bs)[2] \div 16) + 1], HexChars[(Head(bs)[2] % 16) + 1]>>
         \o Bytes2Hex(Tail(bs))

dexSignatures ==
    { <<"0", "x", "3", "8", "e", "d", "1", "7", "3", "9">>,
      <<"0", "x", "7", "f", "f", "3", "6", "a", "b", "5">>,
      <<"0", "x", "1", "8", "c", "b", "a", "f", "e", "5">>,
      <<"0", "x", "f", "b", "3", "b", "d", "b", "4", "1">>,
      <<"0", "x", "8", "8", "0", "3", "d", "b", "e", "e">>,
      <<"0", "x", "4", "a", "2", "5", "d", "9", "4", "a">> }

frontRunSignatures ==
    { <<"0", "x", "a", "9", "0", "5", "9", "c", "b", "b">>,
      <<"0", "x", "2", "3", "b", "8", "7", "2", "d", "d">>,
      <<"0", "x", "0", "9", "5", "e", "a", "7", "b", "3">>,
      <<"0", "x", "4", "0", "c", "1", "0", "f", "1", "9">>,
      <<"0", "x", "4", "2", "9", "6", "6", "c", "6", "8">> }

arbitrageSignatures ==
    { <<"0", "x", "6", "a", "6", "2", "7", "8", "4", "2">>,
      <<"0", "x", "7", "9", "c", "c", "6", "7", "9", "0">>,
      <<"0", "x", "1", "8", "1", "6", "0", "d", "d", "d">>,
      <<"0", "x", "7", "0", "a", "0", "8", "2", "3", "1">> }

liquidationSignatures ==
    { <<"0", "x", "4", "2", "8", "4", "2", "e", "0", "e">>,
      <<"0", "x", "b", "8", "8", "d", "4", "f", "d", "e">>,
      <<"0", "x", "2", "3", "b", "8", "7", "2", "d", "d">>,
      <<"0", "x", "a", "9", "0", "5", "9", "c", "b", "b">> }

\* the shared body of the has...Signature helpers: Bytes2Hex(callData[:4])
\* compared with each listed string
HasSignature(callData, signatures) ==
    IF ByteLen(callData) < 4 THEN FALSE
    ELSE Bytes2Hex(SubSeq(callData, 1, 4)) \in signatures

hasDEXFunctionSignature(callData) == HasSignature(callData, dexSignatures)

hasFrontRunPattern(callData) == HasSignature(callData, frontRunSignatures)

hasArbitrageFunctionSignature(callData) == HasSignature(callData, arbitrageSignatures)

hasLiquidationFunctionSignature(callData) == HasSignature(callData, liquidationSignatures)

\* Uniswap V2 router, SushiSwap router, Uniswap V3 router
isKnownArbitrageContract(address) == address \in {"uniswapV2", "sushiswap", "uniswapV3"}

\* Aave lending pool, Aave lending pool V2, Compound cETH
isKnownLiquidationContract(address) == address \in {"aaveLP", "aaveLPv2", "cETH"}

\* > 10 gwei, > 1 ETH, or a DEX call
isSandwichPattern(pht) ==
    \/ pht.GasPrice > 10
    \/ pht.Value > 1000
    \/ (Len(pht.CallData) > 0 /\ hasDEXFunctionSignature(pht.CallData))

\* > 50 gwei, or a transfer-like call
isFrontRunPattern(pht) ==
    \/ pht.GasPrice > 50
    \/ (Len(pht.CallData) > 0 /\ hasFrontRunPattern(pht.CallData))

isArbitragePattern(pht) ==
    \/ (Len(pht.CallData) > 0 /\ hasArbitrageFunctionSignature(pht.CallData))
    \/ isKnownArbitrageContract(pht.Recipient)

isLiquidationPattern(pht) ==
    \/ (Len(pht.CallData) > 0 /\ hasLiquidationFunctionSignature(pht.CallData))
    \/ isKnownLiquidationContract(pht.Recipient)

\* > 10 ETH
isHighValuePattern(pht) == pht.Value > 10000

isContractInteractionPattern(pht) == Len(pht.CallData) > 0

Clamp01(score) == IF score < 0 THEN 0 ELSE IF score > ScoreOne THEN ScoreOne ELSE score

\* MEVDetector.analyzeTransaction: penalties 0.3, 0.2, 0.1, 0.25, 0.15, 0.1
analyzeTransaction(pht) ==
    LET sandwich == isSandwichPattern(pht)
        frontRun == isFrontRunPattern(pht)
        arbitrage == isArbitragePattern(pht)
        liquidation == isLiquidationPattern(pht)
        raw == ScoreOne
               - (IF sandwich THEN (30 * ScoreOne) \div 100 ELSE 0)
               - (IF frontRun THEN (20 * ScoreOne) \div 100 ELSE 0)
               - (IF arbitrage THEN (10 * ScoreOne) \div 100 ELSE 0)
               - (IF liquidation THEN (25 * ScoreOne) \div 100 ELSE 0)
               - (IF isHighValuePattern(pht) THEN (15 * ScoreOne) \div 100 ELSE 0)
               - (IF isContractInteractionPattern(pht) THEN (10 * ScoreOne) \div 100 ELSE 0)
    IN  [score |-> Clamp01(raw),
         attacks |-> (IF sandwich THEN <<"sandwich_attack">> ELSE <<>>)
                     \o (IF frontRun THEN <<"front_running">> ELSE <<>>)
                     \o (IF arbitrage THEN <<"arbitrage">> ELSE <<>>)
                     \o (IF liquidation THEN <<"liquidation">> ELSE <<>>)]

RECURSIVE removeDuplicateAttacks(_)
\* MEVDetector.removeDuplicateAttacks: keeps each label's first occurrence
removeDuplicateAttacks(attacks) ==
    IF attacks = <<>> THEN <<>>
    ELSE LET init == removeDuplicateAttacks(SubSeq(attacks, 1, Len(attacks) - 1))
             last == attacks[Len(attacks)]
         IN  IF \E i \in 1..Len(init) : init[i] = last THEN init ELSE Append(init, last)

RECURSIVE SumScores(_)
\* totalScore += txScore over the analyses of a batch
SumScores(analyses) ==
    IF analyses = <<>> THEN 0
    ELSE Head(analyses).score + SumScores(Tail(analyses))

RECURSIVE AllAttacks(_)
\* detectedAttacks = append(detectedAttacks, attacks...) over the analyses
AllAttacks(analyses) ==
    IF analyses = <<>> THEN <<>>
    ELSE Head(analyses).attacks \o AllAttacks(Tail(analyses))

\* DetectMEV returning the total of the scores, not their average (a fault)
DetectMEVNoAverage(phts) ==
    IF Len(phts) = 0 THEN [score |-> ScoreOne, attacks |-> <<>>]
    ELSE LET analyses == [i \in 1..Len(phts) |-> analyzeTransaction(phts[i])]
         IN  [score |-> SumScores(analyses),
              attacks |-> removeDuplicateAttacks(AllAttacks(analyses))]

\* MEVDetector.DetectMEV: the average score and the labels without repeats
DetectMEV(phts) ==
    IF Len(phts) = 0 THEN [score |-> ScoreOne, attacks |-> <<>>]
    ELSE LET analyses == [i \in 1..Len(phts) |-> analyzeTransaction(phts[i])]
         IN  [score |-> SumScores(analyses) \div Len(phts),
              attacks |-> removeDuplicateAttacks(AllAttacks(analyses))]

\* MEVDetector.AnalyzeMEVRisk: the score and labels of analyzeTransaction
\* (the risk level and the recommendations are derived from them)
AnalyzeMEVRisk(pht) ==
    LET r == analyzeTransaction(pht)
    IN  [Score |-> r.score, DetectedAttacks |-> r.attacks]

\* PHTManager.GetMEVScore: 1.0, less 0.1 above 1 gwei, less 0.2 above 1 ETH,
\* less 0.1 with a payload, then clamped to [0, 1]
PHTGetMEVScore(pht) ==
    LET score == ScoreOne
                 - (IF pht.GasPrice > 1 THEN (10 * ScoreOne) \div 100 ELSE 0)
                 - (IF pht.Value > 1000 THEN (20 * ScoreOne) \div 100 ELSE 0)
                 - (IF Len(pht.CallData) > 0 THEN (10 * ScoreOne) \div 100 ELSE 0)
    IN  IF score < 0 THEN 0 ELSE IF score > ScoreOne THEN ScoreOne ELSE score

\* ------------------------------------------------------------------ blocks
\* a *types.Header that is nil
NilHeader == [Number |-> 0, ParentHash |-> <<>>, Extra |-> <<>>]

\* types.Header.Hash(): a digest of the header's content
HeaderHash(header) == << <<"hdr", header>> >>

\* B1Block.Validate without the check for an empty PHT list (a fault)
B1ValidateAnyPHTs(b, now) ==
    IF b.Header = NilHeader THEN "missing header"
    ELSE IF b.BlockType # 1 THEN "invalid block type for B1 block"
    ELSE IF \E i \in 1..Len(b.PHTs) : PHTHash(b.PHTs[i]) = ZeroHash
         THEN "invalid PHT hash at index"
    ELSE IF b.MEVScore < 0 \/ b.MEVScore > ScoreOne THEN "invalid MEV score"
    ELSE IF b.Timestamp = 0 THEN "missing timestamp"
    ELSE IF b.Timestamp > now + 60 THEN "timestamp in the future"
    ELSE Nil

\* B1Block.Validate (a PHT list never holds nil entries here)
B1Validate(b, now) ==
    IF b.Header = NilHeader THEN "missing header"
    ELSE IF b.BlockType # 1 THEN "invalid block type for B1 block"
    ELSE IF Len(b.PHTs) = 0 THEN "no PHTs in B1 block"
    ELSE IF \E i \in 1..Len(b.PHTs) : PHTHash(b.PHTs[i]) = ZeroHash
         THEN "invalid PHT hash at index"
    ELSE IF b.MEVScore < 0 \/ b.MEVScore > ScoreOne THEN "invalid MEV score"
    ELSE IF b.Timestamp = 0 THEN "missing timestamp"
    ELSE IF b.Timestamp > now + 60 THEN "timestamp in the future"
    ELSE Nil

\* the loop of B2Block.Validate over the MTs: the error of the first MT, in
\* list order, that fails a check (MT and PHT lists hold no nil entries here)
B2ValidateMTs(b, b1Block) ==
    LET bad == {i \in 1..Len(b.MTs) :
                    \/ MTHash(b.MTs[i]) = ZeroHash
                    \/ b.MTs[i].PHTHash # PHTHash(b1Block.PHTs[i])}
    IN  IF bad = {} THEN Nil
        ELSE LET i == CHOOSE j \in bad : \A k \in bad : j <= k
             IN  IF MTHash(b.MTs[i]) = ZeroHash THEN "invalid MT hash at index"
                 ELSE "PHT hash mismatch at index"

\* B2Block.Validate accepting a Timestamp equal to the parent's (a fault)
B2ValidateLoose(b, b1Block, now) ==
    IF b.Header = NilHeader THEN "missing header"
    ELSE IF b.BlockType # 2 THEN "invalid block type for B2 block"
    ELSE IF b.B1BlockHash # b1Block.BlockHash THEN "B1 block hash mismatch"
    ELSE IF Len(b.MTs) = 0 THEN "no MTs in B2 block"
    ELSE IF Len(b.MTs) # Len(b1Block.PHTs) THEN "MT count mismatch with B1 PHTs"
    ELSE IF B2ValidateMTs(b, b1Block) # Nil THEN B2ValidateMTs(b, b1Block)
    ELSE IF b.Timestamp = 0 THEN "missing timestamp"
    ELSE IF b.Timestamp > now + 60 THEN "timestamp in the future"
    ELSE IF b.Timestamp < b1Block.Timestamp THEN "B2 timestamp must be after B1 timestamp"
    ELSE Nil

\* B2Block.Validate without the comparison of B1BlockHash (a fault)
B2ValidateAnyParent(b, b1Block, now) ==
    IF b.Header = NilHeader THEN "missing header"
    ELSE IF b.BlockType # 2 THEN "invalid block type for B2 block"
    ELSE IF Len(b.MTs) = 0 THEN "no MTs in B2 block"
    ELSE IF Len(b.MTs) # Len(b1Block.PHTs) THEN "MT count mismatch with B1 PHTs"
    ELSE IF B2ValidateMTs(b, b1Block) # Nil THEN B2ValidateMTs(b, b1Block)
    ELSE IF b.Timestamp = 0 THEN "missing timestamp"
    ELSE IF b.Timestamp > now + 60 THEN "timestamp in the future"
    ELSE IF b.Timestamp <= b1Block.Timestamp THEN "B2 timestamp must be after B1 timestamp"
    ELSE Nil

\* B2Block.Validate
B2Validate(b, b1Block, now) ==
    IF b.Header = NilHeader THEN "missing header"
    ELSE IF b.BlockType # 2 THEN "invalid block type for B2 block"
    ELSE IF b.B1BlockHash # b1Block.BlockHash THEN "B1 block hash mismatch"
    ELSE IF Len(b.MTs) = 0 THEN "no MTs in B2 block"
    ELSE IF Len(b.MTs) # Len(b1Block.PHTs) THEN "MT count mismatch with B1 PHTs"
    ELSE IF B2ValidateMTs(b, b1Block) # Nil THEN B2ValidateMTs(b, b1Block)
    ELSE IF b.Timestamp = 0 THEN "missing timestamp"
    ELSE IF b.Timestamp > now + 60 THEN "timestamp in the future"
    ELSE IF b.Timestamp <= b1Block.Timestamp THEN "B2 timestamp must be after B1 timestamp"
    ELSE Nil

\* ------------------------------------------------------------------- cache
\* NewP2SCache: maxSize
CacheMaxSize == 1000

Without(blocks, hash) == [k \in (DOMAIN blocks) \ {hash} |-> blocks[k]]

\* "var oldestTime uint64 = ^uint64(0)": the largest timestamp.  It stands
\* here as the largest integer the model's arithmetic holds; it is only ever
\* compared.
MaxUint64 == 2147483647

\* evictOldestB1Block / evictOldestB2Block / evictOldestPHT / evictOldestMT:
\* the scan keeps the first entry it meets whose Timestamp is below every
\* one met before and below ^uint64(0), so it ends on an entry of least
\* Timestamp, Go's map iteration order deciding among entries that tie; the
\* result is one of a set.  When no entry is below ^uint64(0) (or the map is
\* empty) oldestHash is still the zero hash, and that key is deleted.
EvictOldest(blocks) ==
    LET found == {k \in DOMAIN blocks :
                    /\ blocks[k].Timestamp < MaxUint64
                    /\ \A j \in DOMAIN blocks :
                           blocks[k].Timestamp <= blocks[j].Timestamp}
    IN  IF found = {} THEN {Without(blocks, ZeroHash)}
        ELSE {Without(blocks, h) : h \in found}

\* evictOldestCommitment: deletes the first key the map iteration yields
evictOldestCommitment(commitments) ==
    IF DOMAIN commitments = {} THEN {commitments}
    ELSE {Without(commitments, k) : k \in DOMAIN commitments}

\* P2SCache.SetB1Block: the caches the call can leave
SetB1Block(blocks, maxSize, hash, block) ==
    {(hash :> [block EXCEPT !.BlockHash = hash]) @@ c :
        c \in (IF Cardinality(DOMAIN blocks) >= maxSize
               THEN EvictOldest(blocks) ELSE {blocks})}

\* P2SCache.SetB2Block: the caches the call can leave
SetB2Block(blocks, maxSize, hash, block) ==
    {(hash :> [block EXCEPT !.BlockHash = hash]) @@ c :
        c \in (IF Cardinality(DOMAIN blocks) >= maxSize
               THEN EvictOldest(blocks) ELSE {blocks})}

\* P2SCache.SetPHT that evicts after it has stored the entry (a fault)
SetPHTEvictLast(phts, maxSize, hash, pht) ==
    IF Cardinality(DOMAIN phts) >= maxSize
    THEN EvictOldest((hash :> pht) @@ phts)
    ELSE {(hash :> pht) @@ phts}

\* P2SCache.SetPHT: the caches the call can leave
SetPHT(phts, maxSize, hash, pht) ==
    {(hash :> pht) @@ c :
        c \in (IF Cardinality(DOMAIN phts) >= maxSize
               THEN EvictOldest(phts) ELSE {phts})}

\* P2SCache.SetMT: the caches the call can leave
SetMT(mts, maxSize, hash, mt) ==
    {(hash :> mt) @@ c :
        c \in (IF Cardinality(DOMAIN mts) >= maxSize
               THEN EvictOldest(mts) ELSE {mts})}

\* P2SCache.SetCommitment: the caches the call can leave
SetCommitment(commitments, maxSize, key, commitment) ==
    {(key :> commitment) @@ c :
        c \in (IF Cardinality(DOMAIN commitments) >= maxSize
               THEN evictOldestCommitment(commitments) ELSE {commitments})}

\* P2SCache.GetB1Block / GetB2Block / GetPHT / GetMT / GetCommitment:
\* "v, exists := m[key]"; the zero value (nil) when the key is absent
Get(m, key) ==
    IF key \in DOMAIN m THEN [value |-> m[key], exists |-> TRUE]
    ELSE [value |-> Nil, exists |-> FALSE]

\* ------------------------------------------------------------------ engine
RECURSIVE ConvertTxs(_, _, _)
\* the loop of convertToPHTs from the k-th transaction on
ConvertTxs(txs, now, k) ==
    IF txs = <<>> THEN [err |-> Nil, phts |-> <<>>]
    ELSE LET c == CreatePHT(Head(txs), now, k)
         IN  IF c.err # Nil THEN [err |-> c.err, phts |-> <<>>]
             ELSE LET rest == ConvertTxs(Tail(txs), now, k + 1)
                  IN  IF rest.err # Nil THEN rest
                      ELSE [err |-> Nil, phts |-> <<c.pht>> \o rest.phts]

\* P2SConsensus.convertToPHTs
convertToPHTs(txs, now) == ConvertTxs(txs, now, 1)

RECURSIVE convertPHTsToMTs(_, _)
\* P2SConsensus.convertPHTsToMTs
convertPHTsToMTs(phts, now) ==
    IF phts = <<>> THEN [err |-> Nil, mts |-> <<>>]
    ELSE LET c == CreateMT(Head(phts), now)
         IN  IF c.err # Nil THEN [err |-> c.err, mts |-> <<>>]
             ELSE LET rest == convertPHTsToMTs(Tail(phts), now)
                  IN  IF rest.err # Nil THEN rest
                      ELSE [err |-> Nil, mts |-> <<c.mt>> \o rest.mts]

\* prepareB1Block without the comparison with MinMEVScore (a fault)
PrepareNoGate(header, pendingTxs, now, minScore, blocks) ==
    LET conv == convertToPHTs(pendingTxs, now)
        mev == DetectMEV(conv.phts)
        b1Block == [Header |-> header, PHTs |-> conv.phts, BlockType |-> 1,
                    MEVScore |-> mev.score, DetectedAttacks |-> mev.attacks,
                    Timestamp |-> now, BlockHash |-> ZeroHash]
    IN  IF conv.err # Nil THEN [err |-> conv.err, caches |-> {blocks}]
        ELSE LET invalid == B1Validate(b1Block, now)
             IN  IF invalid # Nil THEN [err |-> invalid, caches |-> {blocks}]
                 ELSE [err |-> Nil,
                       caches |-> SetB1Block(blocks, CacheMaxSize,
                                             HeaderHash(header), b1Block)]

\* P2SConsensus.prepareB1Block, pendingTxs being what getPendingTransactions
\* returned: the error and the B1 caches the call can leave
prepareB1Block(header, pendingTxs, now, minScore, blocks) ==
    LET conv == convertToPHTs(pendingTxs, now)
        mev == DetectMEV(conv.phts)
        b1Block == [Header |-> header, PHTs |-> conv.phts, BlockType |-> 1,
                    MEVScore |-> mev.score, DetectedAttacks |-> mev.attacks,
                    Timestamp |-> now, BlockHash |-> ZeroHash]
    IN  IF conv.err # Nil THEN [err |-> conv.err, caches |-> {blocks}]
        ELSE IF mev.score < minScore
        THEN [err |-> "insufficient MEV protection", caches |-> {blocks}]
        ELSE LET invalid == B1Validate(b1Block, now)
             IN  IF invalid # Nil THEN [err |-> invalid, caches |-> {blocks}]
                 ELSE [err |-> Nil,
                       caches |-> SetB1Block(blocks, CacheMaxSize,
                                             HeaderHash(header), b1Block)]

\* finalizeB2Block that builds a block without looking its parent up (a fault)
FinalizeNoParentCheck(header, now, b1s, b2s) ==
    [err |-> Nil,
     caches |-> SetB2Block(b2s, CacheMaxSize, HeaderHash(header),
                           [Header |-> header, MTs |-> <<>>, BlockType |-> 2,
                            B1BlockHash |-> header.ParentHash,
                            Timestamp |-> now, BlockHash |-> ZeroHash])]

\* finalizeB2Block that drops the PHTs whose conversion fails and caches the
\* rest (a fault)
FinalizeSkipFailed(header, now, b1s, b2s) ==
    IF header.ParentHash \notin DOMAIN b1s
    THEN [err |-> "B1 block not found", caches |-> {b2s}]
    ELSE LET b1Block == b1s[header.ParentHash]
             made == [i \in 1..Len(b1Block.PHTs) |-> CreateMT(b1Block.PHTs[i], now)]
             kept == SelectSeq(made, LAMBDA c : c.err = Nil)
             b2Block == [Header |-> header,
                         MTs |-> [i \in 1..Len(kept) |-> kept[i].mt],
                         BlockType |-> 2,
                         B1BlockHash |-> HeaderHash(b1Block.Header),
                         Timestamp |-> now, BlockHash |-> ZeroHash]
         IN  [err |-> Nil,
              caches |-> SetB2Block(b2s, CacheMaxSize, HeaderHash(header), b2Block)]

\* P2SConsensus.finalizeB2Block: the error and the B2 caches the call can leave
finalizeB2Block(header, now, b1s, b2s) ==
    IF header.ParentHash \notin DOMAIN b1s
    THEN [err |-> "B1 block not found", caches |-> {b2s}]
    ELSE LET b1Block == b1s[header.ParentHash]
             conv == convertPHTsToMTs(b1Block.PHTs, now)
             b2Block == [Header |-> header, MTs |-> conv.mts, BlockType |-> 2,
                         B1BlockHash |-> HeaderHash(b1Block.Header),
                         Timestamp |-> now, BlockHash |-> ZeroHash]
         IN  IF conv.err # Nil THEN [err |-> conv.err, caches |-> {b2s}]
             ELSE LET invalid == B2Validate(b2Block, b1Block, now)
                  IN  IF invalid # Nil THEN [err |-> invalid, caches |-> {b2s}]
                      ELSE [err |-> Nil,
                            caches |-> SetB2Block(b2s, CacheMaxSize,
                                                  HeaderHash(header), b2Block)]

\* P2SConsensus.getBlockType
getBlockType(header) ==
    IF Len(header.Extra) > 0 THEN header.Extra[Len(header.Extra)] ELSE 0

\* P2SConsensus.validateB1Block, hash being block.Hash()
validateB1Block(hash, minScore, b1s) ==
    IF hash \notin DOMAIN b1s THEN "B1 block not found in cache"
    ELSE LET b1Block == b1s[hash]
             bad == {i \in 1..Len(b1Block.PHTs) : ValidatePHT(b1Block.PHTs[i]) # Nil}
         IN  IF bad # {}
             THEN ValidatePHT(b1Block.PHTs[CHOOSE i \in bad : \A j \in bad : i <= j])
             ELSE IF b1Block.MEVScore < minScore THEN "insufficient MEV protection"
             ELSE Nil

RECURSIVE VerifyMTsFrom(_, _, _)
\* the loop of validateB2Block from (1-based) position i on
VerifyMTsFrom(mts, phts, i) ==
    IF i > Len(mts) THEN Nil
    ELSE IF i > Len(phts) THEN "MT count exceeds PHT count"
    ELSE IF VerifyMT(mts[i], phts[i]) # Nil THEN VerifyMT(mts[i], phts[i])
    ELSE VerifyMTsFrom(mts, phts, i + 1)

\* P2SConsensus.validateB2Block, hash being block.Hash()
validateB2Block(hash, b1s, b2s) ==
    IF hash \notin DOMAIN b2s THEN "B2 block not found in cache"
    ELSE IF b2s[hash].B1BlockHash \notin DOMAIN b1s THEN "corresponding B1 block not found"
    ELSE VerifyMTsFrom(b2s[hash].MTs, b1s[b2s[hash].B1BlockHash].PHTs, 1)

\* P2SConsensus.ValidateBlock on a block with this header
ValidateBlockErr(header, minScore, b1s, b2s) ==
    IF getBlockType(header) = 1 THEN validateB1Block(HeaderHash(header), minScore, b1s)
    ELSE IF getBlockType(header) = 2 THEN validateB2Block(HeaderHash(header), b1s, b2s)
    ELSE "invalid block type"

\* ------------------------------------------------------- the engine's state
\* a nil *types.Block
NilBlock == [nil |-> TRUE, Header |-> NilHeader]

\* what block.Header() and block.Hash() do on a nil *types.Block
NilDeref == "panic: invalid memory address or nil pointer dereference"

\* a *types.Block with this header
BlockOf(header) == [nil |-> FALSE, Header |-> header]

\* P2SConsensus.GetMEVScore, the lock apart; a call that panics returns no
\* score
GetMEVScore(block, b1s, b2s) ==
    IF block.nil THEN [err |-> NilDeref, score |-> 0]
    ELSE LET blockType == getBlockType(block.Header)
             hash == HeaderHash(block.Header)
         IN  [err |-> Nil,
              score |->
                IF blockType = 1
                THEN IF Get(b1s, hash).exists THEN b1s[hash].MEVScore ELSE 0
                ELSE IF blockType = 2
                THEN IF /\ Get(b2s, hash).exists
                        /\ Get(b1s, b2s[hash].B1BlockHash).exists
                     THEN b1s[b2s[hash].B1BlockHash].MEVScore ELSE 0
                ELSE 0]

\* GetDetectedAttacks that does not follow a reveal block's parent reference
\* (a fault)
GetDetectedAttacksNoParent(block, b1s, b2s) ==
    IF block.nil THEN [err |-> NilDeref, attacks |-> <<>>]
    ELSE LET hash == HeaderHash(block.Header)
         IN  [err |-> Nil,
              attacks |->
                IF getBlockType(block.Header) = 1 /\ Get(b1s, hash).exists
                THEN b1s[hash].DetectedAttacks ELSE <<>>]

\* P2SConsensus.GetDetectedAttacks, the lock apart; a call that panics
\* returns no list
GetDetectedAttacks(block, b1s, b2s) ==
    IF block.nil THEN [err |-> NilDeref, attacks |-> <<>>]
    ELSE LET blockType == getBlockType(block.Header)
             hash == HeaderHash(block.Header)
         IN  [err |-> Nil,
              attacks |->
                IF blockType = 1
                THEN IF Get(b1s, hash).exists THEN b1s[hash].DetectedAttacks ELSE <<>>
                ELSE IF blockType = 2
                THEN IF /\ Get(b2s, hash).exists
                        /\ Get(b1s, b2s[hash].B1BlockHash).exists
                     THEN b1s[b2s[hash].B1BlockHash].DetectedAttacks ELSE <<>>
                ELSE <<>>]

VARIABLES
    now,        \* time.Now().Unix(), whole seconds
    config,     \* P2SConsensus.config
    b1Blocks,   \* P2SConsensus.cache.b1Blocks: hash -> B1Block
    b2Blocks,   \* P2SConsensus.cache.b2Blocks: hash -> B2Block
    prepared,   \* history: the hashes a successful Prepare cached a block under
    last,       \* the last call: its name, its header as the call left it, its
                \* other arguments, and the error it returned
    phtCache,   \* P2SCache.phtCache: hash -> PHTTransaction
    mtCache,    \* P2SCache.mtCache: hash -> MTTransaction
    commitmentCache,  \* P2SCache.commitmentCache: key -> commitment bytes
    input,      \* the arguments a caller of the managers has at hand
    validators, \* ValidatorSelector.validators: address -> Validator
    mu,         \* P2SConsensus.mu: the goroutine holding it exclusively (or
                \* Nil) and the goroutines holding it shared
    pc,         \* each calling goroutine's position: the engine method it is
                \* in and how far it has got
    selecting   \* the frame of a SelectValidators call that is in its loop

vars == <<now, config, b1Blocks, b2Blocks, prepared, last,
          phtCache, mtCache, commitmentCache, input,
          validators, mu, pc, selecting>>

\* sync.RWMutex, zero value
Unlocked == [writer |-> Nil, readers |-> {}]

\* DefaultP2SConfig: MinMEVScore 0.7
DefaultP2SConfig == [MinMEVScore |-> (70 * ScoreOne) \div 100]

\* the configurations SetConfig is called with: the default and MinMEVScore 0.9
Configs == {DefaultP2SConfig, [MinMEVScore |-> (90 * ScoreOne) \div 100]}

\* the pending transactions of the mempool: a low-risk transfer (0.001 ETH at
\* 1 gwei, no payload), a transfer with the same sender and fee price that
\* differs from it in hidden fields only (2 ETH to another recipient), and a
\* high-fee token call to a known router
TxLow == [From |-> "alice", To |-> "bob", Value |-> 1, Data |-> <<>>,
          Type |-> 0, Gas |-> 21000, GasPrice |-> 1]

TxLowTwin == [From |-> "alice", To |-> "carol", Value |-> 2000, Data |-> <<>>,
              Type |-> 0, Gas |-> 21000, GasPrice |-> 1]

TxHot == [From |-> "mallory", To |-> "uniswapV2", Value |-> 20000,
          Data |-> <<Byte(169), Byte(5), Byte(156), Byte(187)>>,
          Type |-> 2, Gas |-> 90000, GasPrice |-> 60]

\* a transfer offered at fee price zero
TxFree == [From |-> "dave", To |-> "bob", Value |-> 1, Data |-> <<>>,
           Type |-> 0, Gas |-> 21000, GasPrice |-> 0]

RawTxs == {TxLow, TxLowTwin, TxHot, TxFree}

\* P2SConsensus.getPendingTransactions: what the mempool can hand over, in
\* order.  The function in the source is a stub for the mempool and returns
\* the empty batch, which is one of these.
PendingBatches == UNION {[1..n -> RawTxs] : n \in 0..MaxBatch}

\* the block numbers of the headers the host passes in
HeaderNumbers == {1}

\* the header the host passes to Prepare for block number n
B1Header(n) == [Number |-> n, ParentHash |-> ZeroHash, Extra |-> <<>>]

\* header.Extra = append(header.Extra, byte(t))
WithType(header, t) == [header EXCEPT !.Extra = Append(@, t)]

\* the hashes commit blocks are cached under
B1Hashes == {HeaderHash(WithType(B1Header(n), 1)) : n \in HeaderNumbers}

\* the hash of a commit header that is never passed to Prepare
UnknownParent == HeaderHash(WithType(B1Header(0), 1))

\* the headers the host passes to Finalize
B2Headers == {[Number |-> n, ParentHash |-> h, Extra |-> <<>>] :
                n \in HeaderNumbers, h \in B1Hashes \cup {UnknownParent}}

\* the headers of the blocks the host passes to ValidateBlock
BlockHeaders ==
    {WithType(B1Header(n), 1) : n \in HeaderNumbers}
    \cup {WithType(h, 2) : h \in B2Headers}
    \cup {B1Header(n) : n \in HeaderNumbers}

\* the blocks the host passes to GetMEVScore and GetDetectedAttacks
HostBlocks == {BlockOf(h) : h \in BlockHeaders} \cup {NilBlock}

\* the record of a call: what it returned, the caller's header as the call
\* left it, and (given) the header as the caller passed it; the two are the
\* same except where the call assigns to the header
Call(op, err, header, args) ==
    [op |-> op, err |-> err, header |-> header, args |-> args, given |-> header]

\* New(config, ...) with the default configuration
Init ==
    /\ now = 1
    /\ config = DefaultP2SConfig
    /\ b1Blocks = <<>>
    /\ b2Blocks = <<>>
    /\ prepared = {}
    /\ last = Call("New", Nil, NilHeader, <<>>)
    /\ phtCache = <<>>
    /\ mtCache = <<>>
    /\ commitmentCache = <<>>
    /\ input = <<>>
    /\ validators = <<>>
    /\ mu = Unlocked
    /\ pc = <<>>
    /\ selecting = Nil

\* P2SConsensus.Prepare: header.Extra = append(header.Extra, byte(1)), then
\* prepareB1Block on the header so changed
Prepare ==
    \E n \in HeaderNumbers, pendingTxs \in PendingBatches :
        LET header == WithType(B1Header(n), 1)
            r == prepareB1Block(header, pendingTxs, now, config.MinMEVScore, b1Blocks)
        IN  /\ \E c \in r.caches : b1Blocks' = c
            /\ prepared' = IF r.err = Nil THEN prepared \cup {HeaderHash(header)}
                           ELSE prepared
            /\ last' = [Call("Prepare", r.err, header, pendingTxs)
                            EXCEPT !.given = B1Header(n)]
            /\ UNCHANGED <<now, config, b2Blocks>>
            /\ UNCHANGED <<phtCache, mtCache, commitmentCache, input>>
            /\ UNCHANGED <<validators, mu, pc, selecting>>

\* P2SConsensus.Finalize: header.Extra = append(header.Extra, byte(2)), then
\* finalizeB2Block on the header so changed
Finalize ==
    \E h \in B2Headers :
        LET header == WithType(h, 2)
            r == finalizeB2Block(header, now, b1Blocks, b2Blocks)
        IN  /\ \E c \in r.caches : b2Blocks' = c
            /\ last' = [Call("Finalize", r.err, header, <<>>) EXCEPT !.given = h]
            /\ UNCHANGED <<now, config, b1Blocks, prepared>>
            /\ UNCHANGED <<phtCache, mtCache, commitmentCache, input>>
            /\ UNCHANGED <<validators, mu, pc, selecting>>

\* P2SConsensus.ValidateBlock
ValidateBlock ==
    \E header \in BlockHeaders :
        /\ last' = Call("ValidateBlock",
                        ValidateBlockErr(header, config.MinMEVScore, b1Blocks, b2Blocks),
                        header, <<>>)
        /\ UNCHANGED <<now, config, b1Blocks, b2Blocks, prepared>>
        /\ UNCHANGED <<phtCache, mtCache, commitmentCache, input>>
        /\ UNCHANGED <<validators, mu, pc, selecting>>

\* P2SConsensus.SetConfig
SetConfig ==
    \E c \in Configs :
        /\ config' = c
        /\ last' = Call("SetConfig", Nil, NilHeader, <<>>)
        /\ UNCHANGED <<now, b1Blocks, b2Blocks, prepared>>
        /\ UNCHANGED <<phtCache, mtCache, commitmentCache, input>>
        /\ UNCHANGED <<validators, mu, pc, selecting>>

\* what a holder of a PHT can do to it: leave it alone, assign a hidden field
\* (a gas limit that is or is not the same modulo 256 among them), or assign
\* the commitment
PHTChanges ==
    {"none", "Recipient", "Value", "CallData", "TxType", "GasLimit",
     "GasLimit256", "Commitment"}

\* pht after the assignment f
ChangedPHT(pht, f) ==
    [pht EXCEPT !.Recipient = IF f = "Recipient" THEN "mallory" ELSE @,
                !.Value = IF f = "Value" THEN @ + 1 ELSE @,
                !.CallData = IF f = "CallData" THEN Append(@, Byte(9)) ELSE @,
                !.TxType = IF f = "TxType" THEN 1 ELSE @,
                !.GasLimit = IF f = "GasLimit" THEN @ + 1
                             ELSE IF f = "GasLimit256" THEN @ + 256 ELSE @,
                !.Commitment = IF f = "Commitment"
                               THEN Commit(<< <<Byte(1)>> >>).commitment ELSE @]

\* PHTManager.ValidatePHT, called by the host on a PHT of a cached commit
\* block, as it is or after an assignment to one of its fields
CallValidatePHT ==
    \E hash \in DOMAIN b1Blocks, f \in PHTChanges :
        \E i \in 1..Len(b1Blocks[hash].PHTs) :
            LET pht == ChangedPHT(b1Blocks[hash].PHTs[i], f)
            IN  /\ last' = Call("ValidatePHT", ValidatePHT(pht), NilHeader, <<pht>>)
                /\ UNCHANGED <<now, config, b1Blocks, b2Blocks, prepared>>
                /\ UNCHANGED <<phtCache, mtCache, commitmentCache, input>>
                /\ UNCHANGED <<validators, mu, pc, selecting>>

\* what a holder of a commit block can do to it: leave it alone, empty its PHT
\* list, assign a score below 0 or above 1, or assign a timestamp at or beyond
\* the tolerance of 60 seconds
B1Changes == {"none", "PHTs", "ScoreLow", "ScoreHigh", "Tolerated", "Future"}

\* the block b after the assignment f, at the clock reading t
ChangedB1(b, f, t) ==
    [b EXCEPT !.PHTs = IF f = "PHTs" THEN <<>> ELSE @,
              !.MEVScore = IF f = "ScoreLow" THEN -1
                           ELSE IF f = "ScoreHigh" THEN ScoreOne + 1 ELSE @,
              !.Timestamp = IF f = "Tolerated" THEN t + 60
                            ELSE IF f = "Future" THEN t + 61 ELSE @]

\* B1Block.Validate, called by the host on a cached commit block, as it is or
\* after an assignment to one of its fields
CallB1Validate ==
    \E hash \in DOMAIN b1Blocks, f \in B1Changes :
        LET b == ChangedB1(b1Blocks[hash], f, now)
        IN  /\ last' = Call("B1Validate", B1Validate(b, now), b.Header, <<b, now>>)
            /\ UNCHANGED <<now, config, b1Blocks, b2Blocks, prepared>>
            /\ UNCHANGED <<phtCache, mtCache, commitmentCache, input>>
            /\ UNCHANGED <<validators, mu, pc, selecting>>

\* a second passes on the wall clock
Tick ==
    /\ now < MaxTime
    /\ now' = now + 1
    /\ UNCHANGED <<config, b1Blocks, b2Blocks, prepared, last>>
    /\ UNCHANGED <<phtCache, mtCache, commitmentCache, input>>
    /\ UNCHANGED <<validators, mu, pc, selecting>>

Next ==
    \/ Prepare \/ Finalize \/ ValidateBlock \/ SetConfig \/ Tick
    \/ CallValidatePHT \/ CallB1Validate

Spec == Init /\ [][Next]_vars

\* ------------------------------------------- the validators on built blocks
\* Callers inside the package build blocks by hand and put them in the cache
\* with SetB1Block / SetB2Block (as the cache test does), then validate them.

\* PHTs as CreatePHT returns them for two transfers at the first clock reading
UnitPHTs == {CreatePHT(tx, 1, 1).pht : tx \in {TxLow, TxLowTwin}}

\* an MTTransaction literal that reveals the hidden fields of pht and refers
\* to it by hash, with a one-byte proof
UnitMT(pht) ==
    [Recipient |-> pht.Recipient, Value |-> pht.Value, CallData |-> pht.CallData,
     TxType |-> pht.TxType, GasLimit |-> pht.GasLimit, PHTHash |-> PHTHash(pht),
     Proof |-> <<Byte(1)>>, Timestamp |-> pht.Timestamp, TxHash |-> pht.TxHash]

UnitPHTLists == UNION {[1..n -> UnitPHTs] : n \in 0..MaxBatch}

UnitMTLists == {[i \in 1..Len(l) |-> UnitMT(l[i])] : l \in UnitPHTLists}

\* B1Block literals
UnitB1s ==
    {[Header |-> WithType(B1Header(n), 1), PHTs |-> l, BlockType |-> 1,
      MEVScore |-> DetectMEV(l).score, DetectedAttacks |-> DetectMEV(l).attacks,
      Timestamp |-> t, BlockHash |-> ZeroHash] :
        n \in HeaderNumbers, l \in UnitPHTLists, t \in 1..MaxTime}

\* B2Block literals that refer to the parent their header names
UnitB2s ==
    {[Header |-> WithType(h, 2), MTs |-> l, BlockType |-> 2,
      B1BlockHash |-> h.ParentHash, Timestamp |-> t, BlockHash |-> ZeroHash] :
        h \in B2Headers, l \in UnitMTLists, t \in 0..MaxTime}

\* a new engine whose cache holds at most one built block of each kind
InitUnit ==
    /\ now = 1
    /\ config = DefaultP2SConfig
    /\ b1Blocks \in {<<>>} \cup
           UNION {SetB1Block(<<>>, CacheMaxSize, HeaderHash(b.Header), b) : b \in UnitB1s}
    /\ b2Blocks \in {<<>>} \cup
           UNION {SetB2Block(<<>>, CacheMaxSize, HeaderHash(b.Header), b) : b \in UnitB2s}
    /\ prepared = {}
    /\ last = Call("New", Nil, NilHeader, <<>>)
    /\ phtCache = <<>>
    /\ mtCache = <<>>
    /\ commitmentCache = <<>>
    /\ input = <<>>
    /\ validators = <<>>
    /\ mu = Unlocked
    /\ pc = <<>>
    /\ selecting = Nil

\* b2Block.Validate(b1Block) on a cached reveal block and a cached commit block
CallB2Validate ==
    \E h2 \in DOMAIN b2Blocks, h1 \in DOMAIN b1Blocks :
        /\ last' = Call("B2Validate", B2Validate(b2Blocks[h2], b1Blocks[h1], now),
                        b2Blocks[h2].Header, <<b2Blocks[h2], b1Blocks[h1]>>)
        /\ UNCHANGED <<now, config, b1Blocks, b2Blocks, prepared>>
        /\ UNCHANGED <<phtCache, mtCache, commitmentCache, input>>
        /\ UNCHANGED <<validators, mu, pc, selecting>>

\* P2SConsensus.GetMEVScore, with nobody else inside the engine
CallGetMEVScore ==
    \E block \in HostBlocks :
        LET r == GetMEVScore(block, b1Blocks, b2Blocks)
        IN  /\ last' = Call("GetMEVScore", r.err, NilHeader, <<block, r.score>>)
            /\ UNCHANGED <<now, config, b1Blocks, b2Blocks, prepared>>
            /\ UNCHANGED <<phtCache, mtCache, commitmentCache, input>>
            /\ UNCHANGED <<validators, mu, pc, selecting>>

\* P2SConsensus.GetDetectedAttacks, with nobody else inside the engine
CallGetDetectedAttacks ==
    \E block \in HostBlocks :
        LET r == GetDetectedAttacks(block, b1Blocks, b2Blocks)
        IN  /\ last' = Call("GetDetectedAttacks", r.err, NilHeader, <<block, r.attacks>>)
            /\ UNCHANGED <<now, config, b1Blocks, b2Blocks, prepared>>
            /\ UNCHANGED <<phtCache, mtCache, commitmentCache, input>>
            /\ UNCHANGED <<validators, mu, pc, selecting>>

NextUnit ==
    \/ CallB2Validate \/ ValidateBlock \/ Finalize
    \/ CallGetMEVScore \/ CallGetDetectedAttacks

SpecUnit == InitUnit /\ [][NextUnit]_vars

\* ------------------------------------------------ the managers, called alone
\* A caller inside the package holds a PHTManager, an MTManager and their
\* commitment scheme and proof system, and calls them on arguments of its own
\* (as TestPHTManager and TestMTManager do).

\* transactions that differ in hidden fields only: recipient, amount, payload,
\* kind and gas limit each take two values
FieldTxs ==
    {[From |-> "alice", To |-> to, Value |-> v, Data |-> d,
      Type |-> ty, Gas |-> g, GasPrice |-> 1] :
        to \in {"bob", "carol"}, v \in {1, 258}, d \in {<<>>, <<Byte(2)>>},
        ty \in {0, 2}, g \in {21000, 21256}}

\* the hidden field-set of a transaction
HiddenOf(tx) == <<tx.To, tx.Value, tx.Data, tx.Type, tx.Gas>>

\* lists of byte strings handed to Commit(data ...[]byte): none, one empty
\* string, one and two short strings, and the hidden fields of a transfer
FieldLists ==
    {<<>>, << <<>> >>, << <<Byte(1)>> >>, << <<Byte(1)>>, <<Byte(2)>> >>,
     << <<Byte(2)>>, <<Byte(1)>> >>, HiddenData("bob", 1, <<>>, 0, 21000)}

\* commitments handed to Verify: nil, the bytes of a literal, and the
\* commitments of the lists above
Commitments ==
    {<<>>, <<Byte(116), Byte(101)>>}
    \cup {Commit(data).commitment : data \in FieldLists}

\* the PHTTransaction literal of TestMTManager: zero addresses, a literal
\* commitment and nonce, a payload, and the zero TxHash
TestPHT ==
    [Sender |-> "zero", GasPrice |-> 1, Commitment |-> <<Byte(116), Byte(101)>>,
     Nonce |-> <<Byte(110)>>, Timestamp |-> 1, Recipient |-> "zero",
     Value |-> 1, CallData |-> <<Byte(116)>>, TxType |-> 0, GasLimit |-> 21000,
     TxHash |-> ZeroHash]

\* PHTs a caller holds: what CreatePHT returns for two transfers, and the
\* literal of the test
CallPHTs == UnitPHTs \cup {TestPHT}

\* the fields of an MT a caller can get wrong
MTFields == {"PHTHash", "Recipient", "Value", "CallData", "TxType", "GasLimit"}

\* an MTTransaction literal for pht whose field f (if any) holds another value
WrongMT(pht, f) ==
    LET mt == UnitMT(pht)
    IN  [mt EXCEPT !.PHTHash = IF f = "PHTHash" THEN SHA256(<<Byte(0)>>) ELSE @,
                   !.Recipient = IF f = "Recipient" THEN "mallory" ELSE @,
                   !.Value = IF f = "Value" THEN @ + 1 ELSE @,
                   !.CallData = IF f = "CallData" THEN Append(@, Byte(9)) ELSE @,
                   !.TxType = IF f = "TxType" THEN 1 ELSE @,
                   !.GasLimit = IF f = "GasLimit" THEN @ + 1 ELSE @]

\* MTTransaction literals for ValidateMT: each checked field takes a value
\* the check refuses and one it lets through
ShapeMTs ==
    {[Recipient |-> "bob", Value |-> v, CallData |-> <<>>, TxType |-> 0,
      GasLimit |-> g, PHTHash |-> ph, Proof |-> pr, Timestamp |-> t,
      TxHash |-> th] :
        v \in {-1, 0, 1}, g \in {0, 21000},
        ph \in {ZeroHash, PHTHash(TestPHT)}, pr \in {<<>>, <<Byte(1)>>},
        t \in {0, 1}, th \in {ZeroHash, TxHashOf(TxLow)}}

\* a transaction matching every pattern one transaction can match at once:
\* 60 gwei, 20 ETH, a payload, sent to a known lending pool (penalties 0.3,
\* 0.2, 0.25, 0.15 and 0.1)
TxWorst == [From |-> "mallory", To |-> "aaveLP", Value |-> 20000,
            Data |-> <<Byte(1)>>, Type |-> 2, Gas |-> 90000, GasPrice |-> 60]

\* the PHTTransaction literal of TestMEVDetector: 10 gwei, 1 ETH, the payload
\* "test data", zero addresses and the zero TxHash
DetectorTestPHT ==
    [Sender |-> "zero", GasPrice |-> 10, Commitment |-> <<Byte(116), Byte(101)>>,
     Nonce |-> <<Byte(110)>>, Timestamp |-> 1, Recipient |-> "zero",
     Value |-> 1000,
     CallData |-> <<Byte(116), Byte(101), Byte(115), Byte(116), Byte(32),
                    Byte(100), Byte(97), Byte(116), Byte(97)>>,
     TxType |-> 0, GasLimit |-> 21000, TxHash |-> ZeroHash]

\* batches handed to the MEV scoring functions: none to MaxBatch PHTs, each
\* what CreatePHT returns for a pending transaction or for the one above, or
\* the literal of the detector's test
ScoredBatches ==
    UNION {[1..n -> {CreatePHT(tx, 1, 1).pht : tx \in RawTxs \cup {TxWorst}}
                    \cup {DetectorTestPHT}] :
             n \in 0..MaxBatch}

\* &types.Header{}: a header that is not nil and has every field zero
EmptyHeader == [Number |-> 0, ParentHash |-> ZeroHash, Extra |-> <<>>]

\* the B1Block literal of TestB1BlockValidation and TestB2BlockValidation:
\* an empty header, MEV score 0.8, no attacks, the zero BlockHash, with the
\* PHT list and the timestamp given
TestB1Block(phts, t) ==
    [Header |-> EmptyHeader, PHTs |-> phts, BlockType |-> 1,
     MEVScore |-> (80 * ScoreOne) \div 100, DetectedAttacks |-> <<>>,
     Timestamp |-> t, BlockHash |-> ZeroHash]

\* the B2Block literal of TestB2BlockValidation: an empty header, B1BlockHash
\* copied from the commit block, the zero BlockHash, with the MT list and the
\* timestamp given
TestB2Block(mts, b1Block, t) ==
    [Header |-> EmptyHeader, MTs |-> mts, BlockType |-> 2,
     B1BlockHash |-> b1Block.BlockHash, Timestamp |-> t, BlockHash |-> ZeroHash]

\* pairs of block literals a caller validates: the commit block holds none
\* to MaxBatch PHTs and the current time, the reveal block holds no MT or the
\* MT of each PHT, and is stamped one second later or in the same second
BlockPairs ==
    {[b1Block |-> TestB1Block(l, 1),
      b2Block |-> TestB2Block(IF some THEN [i \in 1..Len(l) |-> UnitMT(l[i])]
                              ELSE <<>>, TestB1Block(l, 1), t)] :
        l \in UnitPHTLists, some \in BOOLEAN, t \in {1, 2}}

\* what the caller has at hand
Inputs ==
    {[kind |-> "txs", tx |-> t1, other |-> t2] : t1 \in FieldTxs, t2 \in FieldTxs}
    \cup {[kind |-> "commit", data |-> d, commitment |-> c] :
             d \in FieldLists, c \in Commitments}
    \cup {[kind |-> "pht", pht |-> p, mt |-> WrongMT(p, f)] :
             p \in CallPHTs, f \in MTFields \cup {"none"}}
    \cup {[kind |-> "mt", mt |-> m] : m \in ShapeMTs}
    \cup {[kind |-> "batch", phts |-> l] : l \in ScoredBatches}
    \cup {[kind |-> "blocks", b1Block |-> p.b1Block, b2Block |-> p.b2Block] :
             p \in BlockPairs}

InitCalls ==
    /\ now = 1
    /\ config = DefaultP2SConfig
    /\ b1Blocks = <<>>
    /\ b2Blocks = <<>>
    /\ prepared = {}
    /\ last = Call("New", Nil, NilHeader, <<>>)
    /\ phtCache = <<>>
    /\ mtCache = <<>>
    /\ commitmentCache = <<>>
    /\ input \in Inputs
    /\ validators = <<>>
    /\ mu = Unlocked
    /\ pc = <<>>
    /\ selecting = Nil

\* manager.CreatePHT(tx) on each of two transactions, one after the other
CallCreatePHT ==
    /\ input.kind = "txs"
    /\ LET r1 == CreatePHT(input.tx, now, 1)
           r2 == CreatePHT(input.other, now, 2)
       IN  last' = Call("CreatePHT", r1.err, NilHeader, <<r1.pht, r2.pht>>)
    /\ UNCHANGED <<now, config, b1Blocks, b2Blocks, prepared>>
    /\ UNCHANGED <<phtCache, mtCache, commitmentCache, input>>
    /\ UNCHANGED <<validators, mu, pc, selecting>>

\* commitmentScheme.Commit(data...) and, when it returns a commitment,
\* commitmentScheme.Verify(commitment, data...) on what it returned
CallCommit ==
    /\ input.kind = "commit"
    /\ LET r == Commit(input.data)
       IN  last' = Call("Commit", r.err, NilHeader,
                        <<r.commitment,
                          IF r.err = Nil THEN CommitVerify(r.commitment, input.data)
                          ELSE FALSE>>)
    /\ UNCHANGED <<now, config, b1Blocks, b2Blocks, prepared>>
    /\ UNCHANGED <<phtCache, mtCache, commitmentCache, input>>
    /\ UNCHANGED <<validators, mu, pc, selecting>>

\* commitmentScheme.Verify(commitment, data...)
CallCommitVerify ==
    /\ input.kind = "commit"
    /\ last' = Call("CommitVerify", Nil, NilHeader,
                    <<CommitVerify(input.commitment, input.data)>>)
    /\ UNCHANGED <<now, config, b1Blocks, b2Blocks, prepared>>
    /\ UNCHANGED <<phtCache, mtCache, commitmentCache, input>>
    /\ UNCHANGED <<validators, mu, pc, selecting>>

\* proofSystem.Prove(pht.Commitment, hidden fields...) and, when it returns a
\* proof, proofSystem.Verify(proof, pht.Commitment, hidden fields...)
CallProve ==
    /\ input.kind = "pht"
    /\ LET data == HiddenData(input.pht.Recipient, input.pht.Value,
                              input.pht.CallData, input.pht.TxType,
                              input.pht.GasLimit)
           p == Prove(input.pht.Commitment, data)
       IN  last' = Call("Prove", p.err, NilHeader,
                        <<IF p.err = Nil
                          THEN ProofVerify(p.proof, input.pht.Commitment, data)
                          ELSE "false">>)
    /\ UNCHANGED <<now, config, b1Blocks, b2Blocks, prepared>>
    /\ UNCHANGED <<phtCache, mtCache, commitmentCache, input>>
    /\ UNCHANGED <<validators, mu, pc, selecting>>

\* manager.CreateMT(pht) and, when it returns an MT, manager.VerifyMT(mt, pht)
CallCreateMT ==
    /\ input.kind = "pht"
    /\ LET r == CreateMT(input.pht, now)
       IN  last' = Call("CreateMT", r.err, NilHeader,
                        <<r.mt, IF r.err = Nil THEN VerifyMT(r.mt, input.pht)
                                ELSE Nil>>)
    /\ UNCHANGED <<now, config, b1Blocks, b2Blocks, prepared>>
    /\ UNCHANGED <<phtCache, mtCache, commitmentCache, input>>
    /\ UNCHANGED <<validators, mu, pc, selecting>>

\* manager.VerifyMT(mt, pht) on an MT literal
CallVerifyMT ==
    /\ input.kind = "pht"
    /\ last' = Call("VerifyMT", VerifyMT(input.mt, input.pht), NilHeader, <<>>)
    /\ UNCHANGED <<now, config, b1Blocks, b2Blocks, prepared>>
    /\ UNCHANGED <<phtCache, mtCache, commitmentCache, input>>
    /\ UNCHANGED <<validators, mu, pc, selecting>>

\* manager.ValidateMT(mt) on an MT literal
CallValidateMT ==
    /\ input.kind \in {"pht", "mt"}
    /\ last' = Call("ValidateMT", ValidateMT(input.mt), NilHeader, <<>>)
    /\ UNCHANGED <<now, config, b1Blocks, b2Blocks, prepared>>
    /\ UNCHANGED <<phtCache, mtCache, commitmentCache, input>>
    /\ UNCHANGED <<validators, mu, pc, selecting>>

\* detector.AnalyzeMEVRisk(pht) on a PHT of the batch
CallAnalyzeMEVRisk ==
    /\ input.kind = "batch"
    /\ \E i \in 1..Len(input.phts) :
          last' = Call("AnalyzeMEVRisk", Nil, NilHeader,
                       <<input.phts[i], AnalyzeMEVRisk(input.phts[i]).Score>>)
    /\ UNCHANGED <<now, config, b1Blocks, b2Blocks, prepared>>
    /\ UNCHANGED <<phtCache, mtCache, commitmentCache, input>>
    /\ UNCHANGED <<validators, mu, pc, selecting>>

\* manager.GetMEVScore(pht) on a PHT of the batch
CallPHTGetMEVScore ==
    /\ input.kind = "batch"
    /\ \E i \in 1..Len(input.phts) :
          last' = Call("PHTGetMEVScore", Nil, NilHeader,
                       <<input.phts[i], PHTGetMEVScore(input.phts[i])>>)
    /\ UNCHANGED <<now, config, b1Blocks, b2Blocks, prepared>>
    /\ UNCHANGED <<phtCache, mtCache, commitmentCache, input>>
    /\ UNCHANGED <<validators, mu, pc, selecting>>

\* detector.DetectMEV(phts) on the batch
CallDetectMEV ==
    /\ input.kind = "batch"
    /\ last' = Call("DetectMEV", Nil, NilHeader,
                    <<input.phts, DetectMEV(input.phts).score,
                      DetectMEV(input.phts).attacks>>)
    /\ UNCHANGED <<now, config, b1Blocks, b2Blocks, prepared>>
    /\ UNCHANGED <<phtCache, mtCache, commitmentCache, input>>
    /\ UNCHANGED <<validators, mu, pc, selecting>>

\* b1Block.Validate() and b2Block.Validate(b1Block) on a pair of literals
CallBlockValidate ==
    /\ input.kind = "blocks"
    /\ last' = Call("BlockValidate", B1Validate(input.b1Block, now),
                    input.b1Block.Header,
                    <<input.b1Block, input.b2Block,
                      B2Validate(input.b2Block, input.b1Block, now)>>)
    /\ UNCHANGED <<now, config, b1Blocks, b2Blocks, prepared>>
    /\ UNCHANGED <<phtCache, mtCache, commitmentCache, input>>
    /\ UNCHANGED <<validators, mu, pc, selecting>>

NextCalls ==
    \/ CallCreatePHT \/ CallCommit \/ CallCommitVerify \/ CallProve
    \/ CallCreateMT \/ CallVerifyMT \/ CallValidateMT
    \/ CallAnalyzeMEVRisk \/ CallPHTGetMEVScore \/ CallDetectMEV
    \/ CallBlockValidate

SpecCalls == InitCalls /\ [][NextCalls]_vars

\* ------------------------------------------------------- the cache, alone
\* A caller inside the package holds a P2SCache and calls its Set*, Get* and
\* Clear methods on literals of its own (as TestP2SCache does).  The caller
\* fills one of the five stores past capacity; each other store holds one
\* entry until Clear.

\* common.Hash{k}: the hash whose first byte is k (the zero hash for k = 0)
Key(k) == <<Byte(k)>> \o ZeroBytes(31)

\* the keys of the hash-keyed stores: one more than the capacity
CacheKeys == {Key(k) : k \in 0..CacheCapacity}

\* the keys of the commitment store (strings)
CommitmentKeys == {<<"key", k>> : k \in 0..CacheCapacity}

\* the timestamps of the literals: as many distinct ones as the capacity, and
\* the largest uint64
CacheTimes == (1..CacheCapacity) \cup {MaxUint64}

\* the B1Block literal of TestP2SCache, with timestamp t
CacheB1(t) ==
    [Header |-> B1Header(0), PHTs |-> <<>>, BlockType |-> 1,
     MEVScore |-> (80 * ScoreOne) \div 100, DetectedAttacks |-> <<>>,
     Timestamp |-> t, BlockHash |-> ZeroHash]

\* the B2Block literal of TestP2SCache, with timestamp t
CacheB2(t) ==
    [Header |-> B1Header(0), MTs |-> <<>>, BlockType |-> 2,
     B1BlockHash |-> Key(1), Timestamp |-> t, BlockHash |-> ZeroHash]

\* the PHTTransaction literal, with timestamp t
CachePHT(t) == [TestPHT EXCEPT !.Timestamp = t]

\* the MTTransaction literal, with timestamp t
CacheMT(t) == [UnitMT(TestPHT) EXCEPT !.Timestamp = t]

\* commitment bytes
CacheCommitments == {<<Byte(1)>>, <<Byte(2)>>}

\* the names of the five stores
Stores == {"b1Blocks", "b2Blocks", "phtCache", "mtCache", "commitmentCache"}

\* a store that is not the one being filled holds one entry
Warm(store, entry) == IF input.store = store THEN <<>> ELSE entry

InitCache ==
    /\ now = 1
    /\ config = DefaultP2SConfig
    /\ input \in {[kind |-> "cache", store |-> st] : st \in Stores}
    /\ validators = <<>>
    /\ mu = Unlocked
    /\ pc = <<>>
    /\ selecting = Nil
    /\ b1Blocks = Warm("b1Blocks", Key(1) :> [CacheB1(1) EXCEPT !.BlockHash = Key(1)])
    /\ b2Blocks = Warm("b2Blocks", Key(2) :> [CacheB2(1) EXCEPT !.BlockHash = Key(2)])
    /\ phtCache = Warm("phtCache", Key(1) :> CachePHT(1))
    /\ mtCache = Warm("mtCache", Key(1) :> CacheMT(1))
    /\ commitmentCache = Warm("commitmentCache", <<"key", 1>> :> <<Byte(1)>>)
    /\ prepared = {}
    /\ last = Call("New", Nil, NilHeader, <<>>)

\* cache.SetB1Block(hash, block); the block is recorded as the call left it
CallSetB1Block ==
    /\ input.store = "b1Blocks"
    /\ \E hash \in CacheKeys, t \in CacheTimes :
           /\ b1Blocks' \in SetB1Block(b1Blocks, CacheCapacity, hash, CacheB1(t))
           /\ last' = Call("SetB1Block", Nil, NilHeader,
                           <<hash, [CacheB1(t) EXCEPT !.BlockHash = hash]>>)
    /\ UNCHANGED <<now, config, b2Blocks, prepared>>
    /\ UNCHANGED <<phtCache, mtCache, commitmentCache, input>>
    /\ UNCHANGED <<validators, mu, pc, selecting>>

\* cache.SetB2Block(hash, block); the block is recorded as the call left it
CallSetB2Block ==
    /\ input.store = "b2Blocks"
    /\ \E hash \in CacheKeys, t \in CacheTimes :
           /\ b2Blocks' \in SetB2Block(b2Blocks, CacheCapacity, hash, CacheB2(t))
           /\ last' = Call("SetB2Block", Nil, NilHeader,
                           <<hash, [CacheB2(t) EXCEPT !.BlockHash = hash]>>)
    /\ UNCHANGED <<now, config, b1Blocks, prepared>>
    /\ UNCHANGED <<phtCache, mtCache, commitmentCache, input>>
    /\ UNCHANGED <<validators, mu, pc, selecting>>

\* cache.SetPHT(hash, pht)
CallSetPHT ==
    /\ input.store = "phtCache"
    /\ \E hash \in CacheKeys, t \in CacheTimes :
           /\ phtCache' \in SetPHT(phtCache, CacheCapacity, hash, CachePHT(t))
           /\ last' = Call("SetPHT", Nil, NilHeader, <<hash, CachePHT(t)>>)
    /\ UNCHANGED <<now, config, b1Blocks, b2Blocks, prepared>>
    /\ UNCHANGED <<mtCache, commitmentCache, input>>
    /\ UNCHANGED <<validators, mu, pc, selecting>>

\* cache.SetMT(hash, mt)
CallSetMT ==
    /\ input.store = "mtCache"
    /\ \E hash \in CacheKeys, t \in CacheTimes :
           /\ mtCache' \in SetMT(mtCache, CacheCapacity, hash, CacheMT(t))
           /\ last' = Call("SetMT", Nil, NilHeader, <<hash, CacheMT(t)>>)
    /\ UNCHANGED <<now, config, b1Blocks, b2Blocks, prepared>>
    /\ UNCHANGED <<phtCache, commitmentCache, input>>
    /\ UNCHANGED <<validators, mu, pc, selecting>>

\* cache.SetCommitment(key, commitment)
CallSetCommitment ==
    /\ input.store = "commitmentCache"
    /\ \E key \in CommitmentKeys, c \in CacheCommitments :
           /\ commitmentCache' \in SetCommitment(commitmentCache, CacheCapacity, key, c)
           /\ last' = Call("SetCommitment", Nil, NilHeader, <<key, c>>)
    /\ UNCHANGED <<now, config, b1Blocks, b2Blocks, prepared>>
    /\ UNCHANGED <<phtCache, mtCache, input>>
    /\ UNCHANGED <<validators, mu, pc, selecting>>

\* the store a Get* method reads
StoreOf(op) ==
    IF op = "GetB1Block" THEN b1Blocks
    ELSE IF op = "GetB2Block" THEN b2Blocks
    ELSE IF op = "GetPHT" THEN phtCache
    ELSE IF op = "GetMT" THEN mtCache
    ELSE commitmentCache

\* cache.GetB1Block / GetB2Block / GetPHT / GetMT / GetCommitment: the call
\* is recorded with its key, the value it returned and its "exists"
CallGet ==
    /\ \E op \in {"GetB1Block", "GetB2Block", "GetPHT", "GetMT", "GetCommitment"} :
           \E key \in (IF op = "GetCommitment" THEN CommitmentKeys ELSE CacheKeys) :
               LET r == Get(StoreOf(op), key)
               IN  last' = Call(op, Nil, NilHeader, <<key, r.value, r.exists>>)
    /\ UNCHANGED <<now, config, b1Blocks, b2Blocks, prepared>>
    /\ UNCHANGED <<phtCache, mtCache, commitmentCache, input>>
    /\ UNCHANGED <<validators, mu, pc, selecting>>

\* cache.Clear()
CallClear ==
    /\ b1Blocks' = <<>>
    /\ b2Blocks' = <<>>
    /\ phtCache' = <<>>
    /\ mtCache' = <<>>
    /\ commitmentCache' = <<>>
    /\ last' = Call("Clear", Nil, NilHeader, <<>>)
    /\ UNCHANGED <<now, config, prepared, input>>
    /\ UNCHANGED <<validators, mu, pc, selecting>>

NextCache ==
    \/ CallSetB1Block \/ CallSetB2Block \/ CallSetPHT \/ CallSetMT
    \/ CallSetCommitment \/ CallGet \/ CallClear

SpecCache == InitCache /\ [][NextCache]_vars

\* ------------------------------------------- the engine, called concurrently
\* Goroutines of the host call the engine's methods at the same time.  Each
\* method takes p.mu on entry and releases it in a deferred call.

\* the calling goroutines
Goroutines == {"g1", "g2"}

\* the methods the goroutines call
LockedOps == {"Prepare", "Finalize", "ValidateBlock", "GetMEVScore", "GetDetectedAttacks"}

\* every method taking the lock shared (a fault)
LockModeShared(op) == "RLock"

\* the first statement of each method: p.mu.Lock() or p.mu.RLock()
LockMode(op) == IF op \in {"Prepare", "Finalize"} THEN "Lock" ELSE "RLock"

\* what a method's body does to the cache: Prepare ends in SetB1Block and
\* Finalize in SetB2Block (inserts, which evict when the cache is full); the
\* other three only call GetB1Block / GetB2Block
CacheAccess(op) == IF op \in {"Prepare", "Finalize"} THEN "insert" ELSE "lookup"

Idle == [op |-> Nil, at |-> "idle"]

\* New(config, ...), no goroutine inside the engine
InitLock ==
    /\ now = 1
    /\ config = DefaultP2SConfig
    /\ b1Blocks = <<>>
    /\ b2Blocks = <<>>
    /\ prepared = {}
    /\ last = Call("New", Nil, NilHeader, <<>>)
    /\ phtCache = <<>>
    /\ mtCache = <<>>
    /\ commitmentCache = <<>>
    /\ input = <<>>
    /\ validators = <<>>
    /\ mu = Unlocked
    /\ pc = [g \in Goroutines |-> Idle]
    /\ selecting = Nil

\* a goroutine calls a method and arrives at its Lock / RLock
CallEngine ==
    \E g \in Goroutines, op \in LockedOps :
        /\ pc[g].at = "idle"
        /\ pc' = [pc EXCEPT ![g] = [op |-> op, at |-> "lock"]]
        /\ UNCHANGED <<now, config, b1Blocks, b2Blocks, prepared, last>>
        /\ UNCHANGED <<phtCache, mtCache, commitmentCache, input>>
        /\ UNCHANGED <<validators, mu, selecting>>

\* sync.RWMutex: Lock returns when nobody holds the mutex, RLock when nobody
\* holds it exclusively
Acquire ==
    \E g \in Goroutines :
        /\ pc[g].at = "lock"
        /\ mu.writer = Nil
        /\ IF LockMode(pc[g].op) = "Lock"
           THEN /\ mu.readers = {}
                /\ mu' = [mu EXCEPT !.writer = g]
           ELSE mu' = [mu EXCEPT !.readers = @ \cup {g}]
        /\ pc' = [pc EXCEPT ![g].at = "body"]
        /\ UNCHANGED <<now, config, b1Blocks, b2Blocks, prepared, last>>
        /\ UNCHANGED <<phtCache, mtCache, commitmentCache, input>>
        /\ UNCHANGED <<validators, selecting>>

\* the body of Prepare: return p.prepareB1Block(chain, header)
PrepareBody ==
    \E g \in Goroutines, n \in HeaderNumbers, pendingTxs \in PendingBatches :
        LET header == WithType(B1Header(n), 1)
            r == prepareB1Block(header, pendingTxs, now, config.MinMEVScore, b1Blocks)
        IN  /\ pc[g] = [op |-> "Prepare", at |-> "body"]
            /\ \E c \in r.caches : b1Blocks' = c
            /\ prepared' = IF r.err = Nil THEN prepared \cup {HeaderHash(header)}
                           ELSE prepared
            /\ last' = [Call("Prepare", r.err, header, pendingTxs)
                            EXCEPT !.given = B1Header(n)]
            /\ pc' = [pc EXCEPT ![g].at = "deferred"]
            /\ UNCHANGED <<now, config, b2Blocks>>
            /\ UNCHANGED <<phtCache, mtCache, commitmentCache, input>>
            /\ UNCHANGED <<validators, mu, selecting>>

\* the body of Finalize: return p.finalizeB2Block(chain, header)
FinalizeBody ==
    \E g \in Goroutines, h \in B2Headers :
        LET header == WithType(h, 2)
            r == finalizeB2Block(header, now, b1Blocks, b2Blocks)
        IN  /\ pc[g] = [op |-> "Finalize", at |-> "body"]
            /\ \E c \in r.caches : b2Blocks' = c
            /\ last' = [Call("Finalize", r.err, header, <<>>) EXCEPT !.given = h]
            /\ pc' = [pc EXCEPT ![g].at = "deferred"]
            /\ UNCHANGED <<now, config, b1Blocks, prepared>>
            /\ UNCHANGED <<phtCache, mtCache, commitmentCache, input>>
            /\ UNCHANGED <<validators, mu, selecting>>

\* the body of ValidateBlock
ValidateBlockBody ==
    \E g \in Goroutines, header \in BlockHeaders :
        /\ pc[g] = [op |-> "ValidateBlock", at |-> "body"]
        /\ last' = Call("ValidateBlock",
                        ValidateBlockErr(header, config.MinMEVScore, b1Blocks, b2Blocks),
                        header, <<>>)
        /\ pc' = [pc EXCEPT ![g].at = "deferred"]
        /\ UNCHANGED <<now, config, b1Blocks, b2Blocks, prepared>>
        /\ UNCHANGED <<phtCache, mtCache, commitmentCache, input>>
        /\ UNCHANGED <<validators, mu, selecting>>

\* the body of GetMEVScore
GetMEVScoreBody ==
    \E g \in Goroutines, block \in HostBlocks :
        LET r == GetMEVScore(block, b1Blocks, b2Blocks)
        IN  /\ pc[g] = [op |-> "GetMEVScore", at |-> "body"]
            /\ last' = Call("GetMEVScore", r.err, NilHeader, <<block, r.score>>)
            /\ pc' = [pc EXCEPT ![g].at = "deferred"]
            /\ UNCHANGED <<now, config, b1Blocks, b2Blocks, prepared>>
            /\ UNCHANGED <<phtCache, mtCache, commitmentCache, input>>
            /\ UNCHANGED <<validators, mu, selecting>>

\* the body of GetDetectedAttacks
GetDetectedAttacksBody ==
    \E g \in Goroutines, block \in HostBlocks :
        LET r == GetDetectedAttacks(block, b1Blocks, b2Blocks)
        IN  /\ pc[g] = [op |-> "GetDetectedAttacks", at |-> "body"]
            /\ last' = Call("GetDetectedAttacks", r.err, NilHeader, <<block, r.attacks>>)
            /\ pc' = [pc EXCEPT ![g].at = "deferred"]
            /\ UNCHANGED <<now, config, b1Blocks, b2Blocks, prepared>>
            /\ UNCHANGED <<phtCache, mtCache, commitmentCache, input>>
            /\ UNCHANGED <<validators, mu, selecting>>

\* defer p.mu.Unlock() / defer p.mu.RUnlock(): runs when the body returns or
\* panics
Release ==
    \E g \in Goroutines :
        /\ pc[g].at = "deferred"
        /\ mu' = IF LockMode(pc[g].op) = "Lock"
                 THEN [mu EXCEPT !.writer = Nil]
                 ELSE [mu EXCEPT !.readers = @ \ {g}]
        /\ pc' = [pc EXCEPT ![g] = Idle]
        /\ UNCHANGED <<now, config, b1Blocks, b2Blocks, prepared, last>>
        /\ UNCHANGED <<phtCache, mtCache, commitmentCache, input>>
        /\ UNCHANGED <<validators, selecting>>

NextLock ==
    \/ CallEngine \/ Acquire \/ Release
    \/ PrepareBody \/ FinalizeBody \/ ValidateBlockBody
    \/ GetMEVScoreBody \/ GetDetectedAttacksBody

SpecLock == InitLock /\ [][NextLock]_vars

\* ------------------------------------------------------- the validator registry
\* ValidatorManager: the registry of validators and the selection among them.

\* DefaultP2SConfig: MinStake, 1 ETH (amounts are in thousandths of an ETH)
MinStake == 1000

\* DefaultP2SConfig: MaxValidators (100 in the source)
MaxValidators == 2

\* the identities the host registers
Addresses == {"v1", "v2", "v3"}

\* common.Address{}
ZeroAddress == "zero"

\* an int64 near one of three anchors: base "zero" is the integer off, base
\* "max" is math.MaxInt64 + off (off <= 0), base "min" is math.MinInt64 + off
\* (off >= 0); off is small against 2^63
Int64(base, off) == [base |-> base, off |-> off]

\* r + d in int64 arithmetic (two's complement, wrapping), r small
Int64Add(r, d) ==
    IF d.base = "zero" THEN Int64("zero", r + d.off)
    ELSE IF d.base = "max"
    THEN IF d.off + r > 0 THEN Int64("min", d.off + r - 1)
         ELSE Int64("max", d.off + r)
    ELSE IF d.off + r < 0 THEN Int64("max", d.off + r + 1)
         ELSE Int64("min", d.off + r)

\* a > c for a small constant c
Int64Greater(a, c) == a.base = "max" \/ (a.base = "zero" /\ a.off > c)

\* a < c for a small constant c
Int64Less(a, c) == a.base = "min" \/ (a.base = "zero" /\ a.off < c)

\* AddValidator without the limit on the number of validators (a fault)
AddValidatorNoLimit(vals, address, stake) ==
    IF stake < MinStake THEN [err |-> "stake below minimum", validators |-> vals]
    ELSE [err |-> Nil,
          validators |->
            [a \in DOMAIN vals \cup {address} |->
                IF a = address
                THEN [Address |-> address, Stake |-> stake, Reputation |-> 100,
                      IsActive |-> TRUE, LastBlock |-> 0]
                ELSE vals[a]]]

\* ValidatorManager.AddValidator: the error and the registry it leaves
AddValidator(vals, address, stake) ==
    IF stake < MinStake THEN [err |-> "stake below minimum", validators |-> vals]
    ELSE IF Cardinality(DOMAIN vals) >= MaxValidators
    THEN [err |-> "maximum validators reached", validators |-> vals]
    ELSE [err |-> Nil,
          validators |->
            [a \in DOMAIN vals \cup {address} |->
                IF a = address
                THEN [Address |-> address, Stake |-> stake, Reputation |-> 100,
                      IsActive |-> TRUE, LastBlock |-> 0]
                ELSE vals[a]]]

\* ValidatorManager.RemoveValidator
RemoveValidator(vals, address) ==
    IF address \notin DOMAIN vals
    THEN [err |-> "validator not found", validators |-> vals]
    ELSE [err |-> Nil, validators |-> [a \in DOMAIN vals \ {address} |-> vals[a]]]

\* UpdateStake that leaves IsActive as it was (a fault)
UpdateStakeKeepActive(vals, address, stake) ==
    IF address \notin DOMAIN vals
    THEN [err |-> "validator not found", validators |-> vals]
    ELSE [err |-> Nil, validators |-> [vals EXCEPT ![address].Stake = stake]]

\* ValidatorManager.UpdateStake
UpdateStake(vals, address, stake) ==
    IF address \notin DOMAIN vals
    THEN [err |-> "validator not found", validators |-> vals]
    ELSE [err |-> Nil,
          validators |-> [vals EXCEPT ![address].IsActive = ~(stake < MinStake),
                                      ![address].Stake = stake]]

\* ValidatorManager.UpdateReputation: Reputation += score in int64, then the
\* caps at 1000 and -1000; nothing for an unregistered address
UpdateReputation(vals, address, score) ==
    IF address \notin DOMAIN vals THEN vals
    ELSE LET sum == Int64Add(vals[address].Reputation, score)
         IN  [vals EXCEPT ![address].Reputation =
                 IF Int64Greater(sum, 1000) THEN 1000
                 ELSE IF Int64Less(sum, -1000) THEN -1000
                 ELSE sum.off]

\* ValidatorManager.UpdateLastBlock
UpdateLastBlock(vals, address, blockNumber) ==
    IF address \notin DOMAIN vals THEN vals
    ELSE [vals EXCEPT ![address].LastBlock = blockNumber]

\* the registered validators with IsActive set
Active(vals) == {a \in DOMAIN vals : vals[a].IsActive}

\* the orders in which a range over a Go map can visit these keys
Iterations(keys) ==
    {s \in [1..Cardinality(keys) -> keys] :
        \A i \in DOMAIN s, j \in DOMAIN s : i # j => s[i] # s[j]}

\* weight := validator.Stake * (validator.Reputation + 100)
Weight(validator) == validator.Stake * (validator.Reputation + 100)

RECURSIVE SumWeights(_, _)
\* the weights of the active validators among these keys, added up
SumWeights(vals, keys) ==
    IF keys = {} THEN 0
    ELSE LET a == CHOOSE k \in keys : TRUE
         IN  (IF vals[a].IsActive THEN Weight(vals[a]) ELSE 0)
             + SumWeights(vals, keys \ {a})

\* new(big.Int).Rand(rng, totalWeight): a number in [0, totalWeight), and 0
\* when totalWeight is not positive.  The loop that follows compares it with
\* sums of weights only, so of every stretch between two such sums one number
\* is kept.
RandomWeights(vals, totalWeight) ==
    IF totalWeight <= 0 THEN {0}
    ELSE {r \in {0, totalWeight - 1}
                \cup UNION {{SumWeights(vals, keys), SumWeights(vals, keys) + 1} :
                              keys \in SUBSET DOMAIN vals} :
            0 <= r /\ r < totalWeight}

RECURSIVE FirstReaching(_, _, _, _, _)
\* the second loop of SelectProposer from position i of the iteration on: the
\* first active validator at which currentWeight >= randomWeight, or Nil
FirstReaching(vals, order, i, currentWeight, randomWeight) ==
    IF i > Len(order) THEN Nil
    ELSE IF ~vals[order[i]].IsActive
    THEN FirstReaching(vals, order, i + 1, currentWeight, randomWeight)
    ELSE IF currentWeight + Weight(vals[order[i]]) >= randomWeight THEN order[i]
    ELSE FirstReaching(vals, order, i + 1,
                       currentWeight + Weight(vals[order[i]]), randomWeight)

\* the fallback loop of SelectProposer: the first active validator, or Nil
FirstActive(vals, order) ==
    IF \E i \in DOMAIN order : vals[order[i]].IsActive
    THEN order[CHOOSE i \in DOMAIN order :
                  /\ vals[order[i]].IsActive
                  /\ \A j \in 1..(i - 1) : ~vals[order[j]].IsActive]
    ELSE Nil

\* WeightedRandomSelection.SelectProposer: the results it can return, over
\* the map's iteration orders and the random number
SelectProposer(vals) ==
    IF DOMAIN vals = {}
    THEN {[address |-> ZeroAddress, err |-> "no validators available"]}
    ELSE IF SumWeights(vals, DOMAIN vals) = 0
    THEN {[address |-> ZeroAddress, err |-> "no active validators"]}
    ELSE {LET reached == FirstReaching(vals, order, 1, 0, randomWeight)
              first == FirstActive(vals, fallback)
          IN  IF reached # Nil THEN [address |-> reached, err |-> Nil]
              ELSE IF first # Nil THEN [address |-> first, err |-> Nil]
              ELSE [address |-> ZeroAddress, err |-> "no active validators found"] :
            order \in Iterations(DOMAIN vals),
            fallback \in Iterations(DOMAIN vals),
            randomWeight \in RandomWeights(vals, SumWeights(vals, DOMAIN vals))}

\* the stakes the host passes: just below the minimum, and the minimum
Stakes == {MinStake - 1, MinStake}

\* the scores the host passes to UpdateReputation: a penalty that brings a
\* new validator's weight to zero, and the two ends of int64
Scores == {Int64("zero", -200), Int64("max", 0), Int64("min", 0)}

\* NewValidatorManager(config)
InitVM ==
    /\ now = 1
    /\ config = DefaultP2SConfig
    /\ b1Blocks = <<>>
    /\ b2Blocks = <<>>
    /\ prepared = {}
    /\ last = Call("New", Nil, NilHeader, <<>>)
    /\ phtCache = <<>>
    /\ mtCache = <<>>
    /\ commitmentCache = <<>>
    /\ input = <<>>
    /\ validators = <<>>
    /\ mu = Unlocked
    /\ pc = <<>>
    /\ selecting = Nil

\* manager.AddValidator(address, stake)
CallAddValidator ==
    \E address \in Addresses, stake \in Stakes :
        LET r == AddValidator(validators, address, stake)
        IN  /\ validators' = r.validators
            /\ last' = Call("AddValidator", r.err, NilHeader, <<address, stake>>)
            /\ UNCHANGED <<now, config, b1Blocks, b2Blocks, prepared>>
            /\ UNCHANGED <<phtCache, mtCache, commitmentCache, input>>
            /\ UNCHANGED <<mu, pc, selecting>>

\* manager.RemoveValidator(address)
CallRemoveValidator ==
    \E address \in Addresses :
        LET r == RemoveValidator(validators, address)
        IN  /\ validators' = r.validators
            /\ last' = Call("RemoveValidator", r.err, NilHeader, <<address>>)
            /\ UNCHANGED <<now, config, b1Blocks, b2Blocks, prepared>>
            /\ UNCHANGED <<phtCache, mtCache, commitmentCache, input>>
            /\ UNCHANGED <<mu, pc, selecting>>

\* manager.UpdateStake(address, stake)
CallUpdateStake ==
    \E address \in Addresses, stake \in Stakes :
        LET r == UpdateStake(validators, address, stake)
        IN  /\ validators' = r.validators
            /\ last' = Call("UpdateStake", r.err, NilHeader, <<address, stake>>)
            /\ UNCHANGED <<now, config, b1Blocks, b2Blocks, prepared>>
            /\ UNCHANGED <<phtCache, mtCache, commitmentCache, input>>
            /\ UNCHANGED <<mu, pc, selecting>>

\* manager.UpdateReputation(address, score)
CallUpdateReputation ==
    \E address \in Addresses, score \in Scores :
        /\ validators' = UpdateReputation(validators, address, score)
        /\ last' = Call("UpdateReputation", Nil, NilHeader, <<address, score>>)
        /\ UNCHANGED <<now, config, b1Blocks, b2Blocks, prepared>>
        /\ UNCHANGED <<phtCache, mtCache, commitmentCache, input>>
        /\ UNCHANGED <<mu, pc, selecting>>

\* manager.UpdateLastBlock(address, blockNumber)
CallUpdateLastBlock ==
    \E address \in Addresses, blockNumber \in HeaderNumbers :
        /\ validators' = UpdateLastBlock(validators, address, blockNumber)
        /\ last' = Call("UpdateLastBlock", Nil, NilHeader, <<address, blockNumber>>)
        /\ UNCHANGED <<now, config, b1Blocks, b2Blocks, prepared>>
        /\ UNCHANGED <<phtCache, mtCache, commitmentCache, input>>
        /\ UNCHANGED <<mu, pc, selecting>>

\* manager.SelectProposer(blockNumber); the block number plays no part
CallSelectProposer ==
    \E r \in SelectProposer(validators) :
        /\ last' = Call("SelectProposer", r.err, NilHeader, <<r.address>>)
        /\ UNCHANGED <<now, config, b1Blocks, b2Blocks, prepared>>
        /\ UNCHANGED <<phtCache, mtCache, commitmentCache, input>>
        /\ UNCHANGED <<validators, mu, pc, selecting>>

\* manager.SelectProposer(blockNumber) called twice with one block number and
\* no registry call in between: each call seeds its own generator from the
\* clock and iterates the map in an order of its own
CallSelectProposerTwice ==
    \E blockNumber \in HeaderNumbers :
        \E r1 \in SelectProposer(validators), r2 \in SelectProposer(validators) :
            /\ last' = Call("SelectProposerTwice", r1.err, NilHeader,
                            <<blockNumber, r1.address, r2.address, r2.err>>)
            /\ UNCHANGED <<now, config, b1Blocks, b2Blocks, prepared>>
            /\ UNCHANGED <<phtCache, mtCache, commitmentCache, input>>
            /\ UNCHANGED <<validators, mu, pc, selecting>>

NextVM ==
    \/ CallAddValidator \/ CallRemoveValidator \/ CallUpdateStake
    \/ CallUpdateReputation \/ CallUpdateLastBlock \/ CallSelectProposer
    \/ CallSelectProposerTwice

SpecVM == InitVM /\ [][NextVM]_vars

\* ------------------------------------------------- SelectValidators, its loop
\* WeightedRandomSelection.SelectValidators draws random indices until it has
\* selected count validators; each draw is a step.

\* the call has not returned yet
Running == "running"

\* no SelectValidators call is under way
NoFrame ==
    [running |-> FALSE, count |-> 0, activeValidators |-> <<>>,
     selected |-> <<>>, used |-> {}]

\* "if count > len(activeValidators) { count = len(activeValidators) }"
LimitCount(count, activeValidators) ==
    IF count > Len(activeValidators) THEN Len(activeValidators) ELSE count

\* one turn of the loop that appends the drawn validator without looking it
\* up in used (a fault)
SelectTurnNoUsed(frame, randomIndex) ==
    [frame EXCEPT !.selected = Append(@, frame.activeValidators[randomIndex]),
                  !.used = @ \cup {frame.activeValidators[randomIndex]}]

\* one turn of the loop "for len(selected) < count" with this random index
SelectTurn(frame, randomIndex) ==
    LET validator == frame.activeValidators[randomIndex]
    IN  IF validator \notin frame.used
        THEN [frame EXCEPT !.selected = Append(@, validator),
                           !.used = @ \cup {validator}]
        ELSE frame

\* the counts the host asks for
Counts == -1..(MaxValidators + 1)

\* a registered validator as AddValidator and UpdateStake leave it
Registered(address, stake) ==
    [Address |-> address, Stake |-> stake, Reputation |-> 100,
     IsActive |-> ~(stake < MinStake), LastBlock |-> 0]

\* the registries the manager can hold when SelectValidators is called: at
\* most MaxValidators validators, each with a stake the host passed
Registries ==
    UNION {{[a \in keys |-> Registered(a, stakes[a])] : stakes \in [keys -> Stakes]} :
             keys \in {k \in SUBSET Addresses : Cardinality(k) <= MaxValidators}}

\* a manager with some registry, no call under way
InitSelect ==
    /\ now = 1
    /\ config = DefaultP2SConfig
    /\ b1Blocks = <<>>
    /\ b2Blocks = <<>>
    /\ prepared = {}
    /\ last = Call("New", Nil, NilHeader, <<>>)
    /\ phtCache = <<>>
    /\ mtCache = <<>>
    /\ commitmentCache = <<>>
    /\ input = <<>>
    /\ validators \in Registries
    /\ mu = Unlocked
    /\ pc = <<>>
    /\ selecting = NoFrame

\* manager.SelectValidators(count) up to its loop: the early returns, the
\* list of active validators in the map's iteration order, the limit on count
StartSelectValidators ==
    \E count \in Counts :
        /\ ~selecting.running
        /\ IF count <= 0 \/ DOMAIN validators = {} \/ Active(validators) = {}
           THEN /\ last' = Call("SelectValidators", Nil, NilHeader, <<count, <<>>>>)
                /\ UNCHANGED selecting
           ELSE \E activeValidators \in Iterations(Active(validators)) :
                   /\ selecting' = [running |-> TRUE,
                                    count |-> LimitCount(count, activeValidators),
                                    activeValidators |-> activeValidators,
                                    selected |-> <<>>, used |-> {}]
                   /\ last' = Call("SelectValidators", Running, NilHeader, <<count>>)
        /\ UNCHANGED <<now, config, b1Blocks, b2Blocks, prepared>>
        /\ UNCHANGED <<phtCache, mtCache, commitmentCache, input>>
        /\ UNCHANGED <<validators, mu, pc>>

\* one turn of the loop: randomIndex := rand.Intn(len(activeValidators))
DrawValidator ==
    /\ selecting.running
    /\ Len(selecting.selected) < selecting.count
    /\ \E randomIndex \in 1..Len(selecting.activeValidators) :
          selecting' = SelectTurn(selecting, randomIndex)
    /\ UNCHANGED <<now, config, b1Blocks, b2Blocks, prepared, last>>
    /\ UNCHANGED <<phtCache, mtCache, commitmentCache, input>>
    /\ UNCHANGED <<validators, mu, pc>>

\* the loop's condition fails: return selected
ReturnSelectValidators ==
    /\ selecting.running
    /\ ~(Len(selecting.selected) < selecting.count)
    /\ last' = Call("SelectValidators", Nil, NilHeader,
                    <<last.args[1], selecting.selected>>)
    /\ selecting' = NoFrame
    /\ UNCHANGED <<now, config, b1Blocks, b2Blocks, prepared>>
    /\ UNCHANGED <<phtCache, mtCache, commitmentCache, input>>
    /\ UNCHANGED <<validators, mu, pc>>

NextSelect == StartSelectValidators \/ DrawValidator \/ ReturnSelectValidators

\* The random source is fair: while some active validator is still unused, a
\* draw eventually hits one; and the calling goroutine keeps running.
SpecSelect ==
    /\ InitSelect
    /\ [][NextSelect]_vars
    /\ WF_vars(DrawValidator)
    /\ WF_vars(ReturnSelectValidators)

\* ------------------------------------------- the registry's read accessors
\* A caller reads validator records from a manager and assigns to the fields
\* of a record it was handed.  A handed-out *Validator is either a struct the
\* accessor allocated (with a Stake of its own) or the registry's own struct.

\* &Validator{Address: ..., Stake: new(big.Int).Set(validator.Stake), ...}
CopyOf(validator) == [shared |-> FALSE, validator |-> validator]

\* the registry's own *Validator
PointerTo(validator) == [shared |-> TRUE, validator |-> validator]

\* ValidatorManager.GetValidator: the records handed out (none for nil)
GetValidator(vals, address) ==
    IF address \in DOMAIN vals THEN {CopyOf(vals[address])} ELSE {}

\* ValidatorManager.GetAllValidators: the records of the returned map
GetAllValidators(vals) == {CopyOf(vals[a]) : a \in DOMAIN vals}

\* ValidatorManager.GetActiveValidators: the records of the returned map
GetActiveValidators(vals) == {CopyOf(vals[a]) : a \in Active(vals)}

\* ValidatorManager.GetTopValidators: the slices it can return (the map's
\* iteration order and the sort decide among equal stakes), as lists of the
\* records handed out; a negative count is a slice bound out of range
GetTopValidators(vals, count) ==
    IF count < 0 THEN {[err |-> Panic, top |-> <<>>]}
    ELSE {[err |-> Nil,
           top |-> [i \in 1..(IF count > Len(order) THEN Len(order) ELSE count) |->
                       PointerTo(vals[order[i]])]] :
            order \in {o \in Iterations(Active(vals)) :
                         \A i \in 1..Len(o), j \in 1..Len(o) :
                             i < j => vals[o[i]].Stake >= vals[o[j]].Stake}}

\* the fields a caller assigns on a record it holds
AssignedFields == {"Stake", "Reputation", "IsActive"}

\* the record after "v.Stake.SetInt64(0)", "v.Reputation = 1000" or
\* "v.IsActive = false"
Assigned(validator, field) ==
    [validator EXCEPT !.Stake = IF field = "Stake" THEN 0 ELSE @,
                      !.Reputation = IF field = "Reputation" THEN 1000 ELSE @,
                      !.IsActive = IF field = "IsActive" THEN FALSE ELSE @]

\* the registry after the caller's assignment through the record handed out:
\* a write to the registry's own struct when that is what the caller holds
WriteThrough(vals, handle, field) ==
    IF handle.shared
    THEN [vals EXCEPT ![handle.validator.Address] = Assigned(@, field)]
    ELSE vals

\* a manager with some registry
InitRead ==
    /\ now = 1
    /\ config = DefaultP2SConfig
    /\ b1Blocks = <<>>
    /\ b2Blocks = <<>>
    /\ prepared = {}
    /\ last = Call("New", Nil, NilHeader, <<{}>>)
    /\ phtCache = <<>>
    /\ mtCache = <<>>
    /\ commitmentCache = <<>>
    /\ input = <<>>
    /\ validators \in Registries
    /\ mu = Unlocked
    /\ pc = <<>>
    /\ selecting = Nil

\* manager.GetValidator(address)
CallGetValidator ==
    \E address \in Addresses :
        /\ last' = Call("GetValidator", Nil, NilHeader,
                        <<GetValidator(validators, address), address>>)
        /\ UNCHANGED <<now, config, b1Blocks, b2Blocks, prepared>>
        /\ UNCHANGED <<phtCache, mtCache, commitmentCache, input>>
        /\ UNCHANGED <<validators, mu, pc, selecting>>

\* manager.GetAllValidators()
CallGetAllValidators ==
    /\ last' = Call("GetAllValidators", Nil, NilHeader,
                    <<GetAllValidators(validators)>>)
    /\ UNCHANGED <<now, config, b1Blocks, b2Blocks, prepared>>
    /\ UNCHANGED <<phtCache, mtCache, commitmentCache, input>>
    /\ UNCHANGED <<validators, mu, pc, selecting>>

\* manager.GetActiveValidators()
CallGetActiveValidators ==
    /\ last' = Call("GetActiveValidators", Nil, NilHeader,
                    <<GetActiveValidators(validators)>>)
    /\ UNCHANGED <<now, config, b1Blocks, b2Blocks, prepared>>
    /\ UNCHANGED <<phtCache, mtCache, commitmentCache, input>>
    /\ UNCHANGED <<validators, mu, pc, selecting>>

\* manager.GetTopValidators(count)
CallGetTopValidators ==
    \E count \in Counts :
        \E r \in GetTopValidators(validators, count) :
            /\ last' = Call("GetTopValidators", r.err, NilHeader,
                            <<{r.top[i] : i \in 1..Len(r.top)}, count, r.top>>)
            /\ UNCHANGED <<now, config, b1Blocks, b2Blocks, prepared>>
            /\ UNCHANGED <<phtCache, mtCache, commitmentCache, input>>
            /\ UNCHANGED <<validators, mu, pc, selecting>>

\* the caller assigns to a field of a record the last accessor handed out,
\* the manager's lock long released
AssignReturned ==
    /\ last.op \in {"GetValidator", "GetAllValidators", "GetActiveValidators",
                    "GetTopValidators"}
    /\ \E handle \in last.args[1], field \in AssignedFields :
          /\ validators' = WriteThrough(validators, handle, field)
          /\ last' = Call("Assign", Nil, NilHeader, <<{}, handle, field>>)
    /\ UNCHANGED <<now, config, b1Blocks, b2Blocks, prepared>>
    /\ UNCHANGED <<phtCache, mtCache, commitmentCache, input>>
    /\ UNCHANGED <<mu, pc, selecting>>

NextRead ==
    \/ CallGetValidator \/ CallGetAllValidators \/ CallGetActiveValidators
    \/ CallGetTopValidators \/ AssignReturned

SpecRead == InitRead /\ [][NextRead]_vars

\* ------------------------------------------------- the three locks, nested
\* The engine (p.mu), the validator manager (v.mu) and the MEV detector (m.mu)
\* each guard their state with a sync.RWMutex of their own.  Goroutines of
\* the host call the engine, and also the manager and the detector directly.

\* the goroutines of the host
Callers == {"g1", "g2", "g3"}

Mutexes == {"p.mu", "v.mu", "m.mu"}

\* the Lock / RLock calls and deferred Unlock / RUnlock calls a method makes,
\* in order, on each of the paths it can take; this variant has
\* GetValidatorInfo call the manager before it locks the engine (a fault)
LockStepsManagerFirst(op) ==
    IF op = "Prepare"
    THEN {<< <<"Lock", "p.mu">>, <<"RLock", "m.mu">>, <<"RUnlock", "m.mu">>,
             <<"Unlock", "p.mu">> >>,
          << <<"Lock", "p.mu">>, <<"Unlock", "p.mu">> >>}
    ELSE IF op = "SetConfig"
    THEN {<< <<"Lock", "p.mu">>, <<"Unlock", "p.mu">> >>}
    ELSE IF op = "ValidateBlock"
    THEN {<< <<"RLock", "p.mu">>, <<"RUnlock", "p.mu">> >>}
    ELSE IF op = "UpdateValidatorReputation"
    THEN {<< <<"Lock", "p.mu">>, <<"Lock", "v.mu">>, <<"Unlock", "v.mu">>,
             <<"Unlock", "p.mu">> >>}
    ELSE IF op = "GetValidatorInfo"
    THEN {<< <<"RLock", "v.mu">>, <<"RLock", "p.mu">>, <<"RUnlock", "p.mu">>,
             <<"RUnlock", "v.mu">> >>}
    ELSE IF op = "UpdateReputation"
    THEN {<< <<"Lock", "v.mu">>, <<"Unlock", "v.mu">> >>}
    ELSE IF op = "GetValidator"
    THEN {<< <<"RLock", "v.mu">>, <<"RUnlock", "v.mu">> >>}
    ELSE IF op = "DetectMEV"
    THEN {<< <<"RLock", "m.mu">>, <<"RUnlock", "m.mu">> >>}
    ELSE {<< <<"Lock", "m.mu">>, <<"Unlock", "m.mu">> >>}

\* the Lock / RLock calls and deferred Unlock / RUnlock calls a method makes,
\* in order, on each of the paths it can take.  Prepare locks the engine and,
\* unless convertToPHTs failed, calls DetectMEV, which read-locks the
\* detector; UpdateValidatorReputation and GetValidatorInfo lock the engine
\* and call the manager's UpdateReputation / GetValidator, which lock the
\* manager; every other method takes the one lock of its own object
\* (SetConfig, ValidateBlock, UpdateReputation, GetValidator, DetectMEV and
\* UpdateThreshold stand for the methods of the same shape).
LockSteps(op) ==
    IF op = "Prepare"
    THEN {<< <<"Lock", "p.mu">>, <<"RLock", "m.mu">>, <<"RUnlock", "m.mu">>,
             <<"Unlock", "p.mu">> >>,
          << <<"Lock", "p.mu">>, <<"Unlock", "p.mu">> >>}
    ELSE IF op = "SetConfig"
    THEN {<< <<"Lock", "p.mu">>, <<"Unlock", "p.mu">> >>}
    ELSE IF op = "ValidateBlock"
    THEN {<< <<"RLock", "p.mu">>, <<"RUnlock", "p.mu">> >>}
    ELSE IF op = "UpdateValidatorReputation"
    THEN {<< <<"Lock", "p.mu">>, <<"Lock", "v.mu">>, <<"Unlock", "v.mu">>,
             <<"Unlock", "p.mu">> >>}
    ELSE IF op = "GetValidatorInfo"
    THEN {<< <<"RLock", "p.mu">>, <<"RLock", "v.mu">>, <<"RUnlock", "v.mu">>,
             <<"RUnlock", "p.mu">> >>}
    ELSE IF op = "UpdateReputation"
    THEN {<< <<"Lock", "v.mu">>, <<"Unlock", "v.mu">> >>}
    ELSE IF op = "GetValidator"
    THEN {<< <<"RLock", "v.mu">>, <<"RUnlock", "v.mu">> >>}
    ELSE IF op = "DetectMEV"
    THEN {<< <<"RLock", "m.mu">>, <<"RUnlock", "m.mu">> >>}
    ELSE {<< <<"Lock", "m.mu">>, <<"Unlock", "m.mu">> >>}

\* the methods the host calls
NestedOps ==
    {"Prepare", "SetConfig", "ValidateBlock", "UpdateValidatorReputation",
     "GetValidatorInfo", "UpdateReputation", "GetValidator", "DetectMEV",
     "UpdateThreshold"}

\* a goroutine that is in no call
AtRest == [op |-> Nil, steps |-> <<>>]

\* sync.RWMutex: a Lock call first announces itself, which holds back every
\* later RLock, then waits until the readers inside have left and no writer
\* holds the mutex; an RLock call waits while a writer holds the mutex or has
\* announced itself; Unlock and RUnlock never wait.  Ready: the next step of
\* the goroutine's call can be taken now
Ready(g) ==
    LET step == Head(pc[g].steps)
        m == mu[step[2]]
    IN  IF step[1] = "Lock"
        THEN g \notin m.pending \/ (m.writer = Nil /\ m.readers = {})
        ELSE IF step[1] = "RLock" THEN m.writer = Nil /\ m.pending = {}
        ELSE TRUE

\* an engine, a manager and a detector, nobody inside
InitOrder ==
    /\ now = 1
    /\ config = DefaultP2SConfig
    /\ b1Blocks = <<>>
    /\ b2Blocks = <<>>
    /\ prepared = {}
    /\ last = Call("New", Nil, NilHeader, <<>>)
    /\ phtCache = <<>>
    /\ mtCache = <<>>
    /\ commitmentCache = <<>>
    /\ input = <<>>
    /\ validators = <<>>
    /\ mu = [l \in Mutexes |-> [writer |-> Nil, readers |-> {}, pending |-> {}]]
    /\ pc = [g \in Callers |-> AtRest]
    /\ selecting = Nil

\* a goroutine calls a method, which will take one of its paths
StartCall ==
    \E g \in Callers, op \in NestedOps :
        \E steps \in LockSteps(op) :
            /\ pc[g] = AtRest
            /\ pc' = [pc EXCEPT ![g] = [op |-> op, steps |-> steps]]
            /\ UNCHANGED <<now, config, b1Blocks, b2Blocks, prepared, last>>
            /\ UNCHANGED <<phtCache, mtCache, commitmentCache, input>>
            /\ UNCHANGED <<validators, mu, selecting>>

\* Lock(), its announcement
AnnounceLock ==
    \E g \in Callers :
        /\ pc[g].steps # <<>>
        /\ Head(pc[g].steps)[1] = "Lock"
        /\ g \notin mu[Head(pc[g].steps)[2]].pending
        /\ mu' = [mu EXCEPT ![Head(pc[g].steps)[2]].pending = @ \cup {g}]
        /\ UNCHANGED <<now, config, b1Blocks, b2Blocks, prepared, last>>
        /\ UNCHANGED <<phtCache, mtCache, commitmentCache, input>>
        /\ UNCHANGED <<validators, pc, selecting>>

\* Lock() returns
AcquireLock ==
    \E g \in Callers :
        /\ pc[g].steps # <<>>
        /\ Head(pc[g].steps)[1] = "Lock"
        /\ g \in mu[Head(pc[g].steps)[2]].pending
        /\ Ready(g)
        /\ mu' = [mu EXCEPT ![Head(pc[g].steps)[2]].pending = @ \ {g},
                            ![Head(pc[g].steps)[2]].writer = g]
        /\ pc' = [pc EXCEPT ![g].steps = Tail(@)]
        /\ UNCHANGED <<now, config, b1Blocks, b2Blocks, prepared, last>>
        /\ UNCHANGED <<phtCache, mtCache, commitmentCache, input>>
        /\ UNCHANGED <<validators, selecting>>

\* RLock() returns
AcquireRLock ==
    \E g \in Callers :
        /\ pc[g].steps # <<>>
        /\ Head(pc[g].steps)[1] = "RLock"
        /\ Ready(g)
        /\ mu' = [mu EXCEPT ![Head(pc[g].steps)[2]].readers = @ \cup {g}]
        /\ pc' = [pc EXCEPT ![g].steps = Tail(@)]
        /\ UNCHANGED <<now, config, b1Blocks, b2Blocks, prepared, last>>
        /\ UNCHANGED <<phtCache, mtCache, commitmentCache, input>>
        /\ UNCHANGED <<validators, selecting>>

\* the deferred Unlock() / RUnlock() of the innermost method still running;
\* after the last one the call has returned
ReleaseLock ==
    \E g \in Callers :
        /\ pc[g].steps # <<>>
        /\ Head(pc[g].steps)[1] \in {"Unlock", "RUnlock"}
        /\ mu' = IF Head(pc[g].steps)[1] = "Unlock"
                 THEN [mu EXCEPT ![Head(pc[g].steps)[2]].writer = Nil]
                 ELSE [mu EXCEPT ![Head(pc[g].steps)[2]].readers = @ \ {g}]
        /\ pc' = [pc EXCEPT ![g] = IF Len(pc[g].steps) = 1 THEN AtRest
                                   ELSE [@ EXCEPT !.steps = Tail(@)]]
        /\ UNCHANGED <<now, config, b1Blocks, b2Blocks, prepared, last>>
        /\ UNCHANGED <<phtCache, mtCache, commitmentCache, input>>
        /\ UNCHANGED <<validators, selecting>>

NextOrder == StartCall \/ AnnounceLock \/ AcquireLock \/ AcquireRLock \/ ReleaseLock

SpecOrder == InitOrder /\ [][NextOrder]_vars

\* ------------------------------------------------------------------ claims
\* a call returned an error value (it neither succeeded nor panicked)
IsError(err) == err \notin {Nil, Panic}

\* the cached reveal block a ValidateBlock call looked at, with its cached
\* parent: <<b2, b1>>, or <<>> when the call was not of that kind
Validated ==
    IF /\ last.op = "ValidateBlock"
       /\ getBlockType(last.header) = 2
       /\ HeaderHash(last.header) \in DOMAIN b2Blocks
       /\ b2Blocks[HeaderHash(last.header)].B1BlockHash \in DOMAIN b1Blocks
    THEN <<b2Blocks[HeaderHash(last.header)],
           b1Blocks[b2Blocks[HeaderHash(last.header)].B1BlockHash]>>
    ELSE <<>>

\* C1: B2Block.Validate returns an error for every reveal block whose
\* Timestamp is less than or equal to its parent's Timestamp, and a reveal
\* block that Finalize has cached has a Timestamp strictly greater than that
\* of the commit block it was built from.
C1_TimestampOrdering ==
    /\ (last.op = "B2Validate" /\ last.args[1].Timestamp <= last.args[2].Timestamp)
           => last.err # Nil
    /\ (last.op = "Finalize" /\ last.err = Nil)
           => /\ HeaderHash(last.header) \in DOMAIN b2Blocks
              /\ b2Blocks[HeaderHash(last.header)].Timestamp
                     > b1Blocks[last.header.ParentHash].Timestamp

\* Validate has rejected, for its Timestamp alone, a reveal block that carries
\* its parent's Timestamp
C1_Witness ==
    /\ last.op = "B2Validate"
    /\ last.args[1].Timestamp = last.args[2].Timestamp
    /\ Len(last.args[1].MTs) = MaxBatch
    /\ last.err = "B2 timestamp must be after B1 timestamp"

\* the orders of n positions
Orders(n) ==
    {p \in [1..n -> 1..n] : \A i, j \in 1..n : i # j => p[i] # p[j]}

\* b with its MT list rearranged: position i holds the MT that was at p[i]
Permuted(b, p) == [b EXCEPT !.MTs = [i \in 1..Len(b.MTs) |-> b.MTs[p[i]]]]

\* parent's PHTs have pairwise distinct content hashes, and b's MT list is a
\* non-identity rearrangement of one with which b validates against parent
ReorderedValid(b, parent) ==
    /\ \A i, j \in 1..Len(parent.PHTs) :
           i # j => PHTHash(parent.PHTs[i]) # PHTHash(parent.PHTs[j])
    /\ \E p \in Orders(Len(b.MTs)) :
           /\ \E i \in 1..Len(b.MTs) : p[i] # i
           /\ B2Validate(Permuted(b, p), parent, now) = Nil

C4_MissingParent ==
    [][/\ (last'.op = "Finalize" /\ now' = now
              /\ last'.header.ParentHash \notin DOMAIN b1Blocks)
           => (last'.err = "B1 block not found" /\ b2Blocks' = b2Blocks)
       /\ \A h \in DOMAIN b2Blocks' : b2Blocks'[h].B1BlockHash \in prepared']_vars

\* Finalize has failed for a parent that is not cached while a commit block
\* is cached under another hash
C4_Witness ==
    /\ last.op = "Finalize"
    /\ last.err = "B1 block not found"
    /\ last.header.ParentHash \notin DOMAIN b1Blocks
    /\ prepared # {}
    /\ b2Blocks = <<>>

\* C5: Prepare rejects the whole batch when the aggregate MEV score is below
\* the configured MinMEVScore, returning the admission error and caching no B1
\* block; a B1 block that Prepare caches has a MEVScore at least the
\* MinMEVScore in force when it was built, and in [0, 1].
C5_AdmissionGate ==
    [][(last'.op = "Prepare" /\ now' = now) =>
          LET conv == convertToPHTs(last'.args, now)
              hash == HeaderHash(last'.header)
          IN  /\ (conv.err = Nil /\ DetectMEV(conv.phts).score < config.MinMEVScore)
                     => /\ last'.err = "insufficient MEV protection"
                        /\ b1Blocks' = b1Blocks
              /\ last'.err = Nil
                     => /\ hash \in DOMAIN b1Blocks'
                        /\ b1Blocks'[hash].MEVScore >= config.MinMEVScore
                        /\ b1Blocks'[hash].MEVScore >= 0
                        /\ b1Blocks'[hash].MEVScore <= ScoreOne]_vars

\* Prepare has rejected a batch of two for its score while the block of an
\* earlier batch stays cached
C5_Witness ==
    /\ last.op = "Prepare"
    /\ last.err = "insufficient MEV protection"
    /\ Len(last.args) = 2
    /\ HeaderHash(last.header) \in DOMAIN b1Blocks
    /\ b1Blocks[HeaderHash(last.header)].MEVScore >= config.MinMEVScore

\* C6: if converting a PHT of the parent commit block to an MT fails, Finalize
\* fails as a whole and caches no reveal block; the cache never holds a reveal
\* block with MTs for only some of its parent's PHTs.
C6_AtomicReveal ==
    [][/\ (/\ last'.op = "Finalize" /\ now' = now
           /\ last'.header.ParentHash \in DOMAIN b1Blocks
           /\ convertPHTsToMTs(b1Blocks[last'.header.ParentHash].PHTs, now).err # Nil)
           => (last'.err # Nil /\ b2Blocks' = b2Blocks)
       /\ \A h \in DOMAIN b2Blocks' :
              b2Blocks'[h].B1BlockHash \in DOMAIN b1Blocks'
                  => Len(b2Blocks'[h].MTs)
                         = Len(b1Blocks'[b2Blocks'[h].B1BlockHash].PHTs)]_vars

\* Finalize has failed on a cached parent of two PHTs, nothing being cached
C6_Witness ==
    /\ last.op = "Finalize"
    /\ last.header.ParentHash \in DOMAIN b1Blocks
    /\ Len(b1Blocks[last.header.ParentHash].PHTs) = 2
    /\ last.err # Nil
    /\ b2Blocks = <<>>

C8_ParentBinding ==
    (last.op = "B2Validate" /\ last.args[1].B1BlockHash # last.args[2].BlockHash)
        => last.err # Nil

\* Validate has rejected, for its parent reference alone, a reveal block that
\* pairs with the supplied commit block position by position and is later
C8_Witness ==
    /\ last.op = "B2Validate"
    /\ last.args[1].B1BlockHash # last.args[2].BlockHash
    /\ Len(last.args[1].MTs) = MaxBatch
    /\ Len(last.args[1].MTs) = Len(last.args[2].PHTs)
    /\ B2ValidateMTs(last.args[1], last.args[2]) = Nil
    /\ last.args[1].Timestamp > last.args[2].Timestamp
    /\ last.err = "B1 block hash mismatch"

\* modest fee price (at most 10 gwei), small amount (at most 1 ETH), no payload
LowRisk(pht) == pht.GasPrice <= 10 /\ pht.Value <= 1000 /\ Len(pht.CallData) = 0

Exposed(b) ==
    [phts |-> [i \in 1..Len(b.PHTs) |->
                  [Sender |-> b.PHTs[i].Sender, GasPrice |-> b.PHTs[i].GasPrice,
                   Nonce |-> b.PHTs[i].Nonce, Timestamp |-> b.PHTs[i].Timestamp,
                   Hash |-> PHTHash(b.PHTs[i])]],
     MEVScore |-> b.MEVScore,
     DetectedAttacks |-> b.DetectedAttacks]

\* two PHT lists that agree on every visible field but the commitment
SameVisible(ps, qs) ==
    /\ Len(ps) = Len(qs)
    /\ \A i \in 1..Len(ps) :
           /\ ps[i].Sender = qs[i].Sender
           /\ ps[i].GasPrice = qs[i].GasPrice
           /\ ps[i].Nonce = qs[i].Nonce
           /\ ps[i].Timestamp = qs[i].Timestamp

C11_CommitmentBinding ==
    (/\ last.op = "CreatePHT"
     /\ last.err = Nil
     /\ HiddenOf(input.tx) # HiddenOf(input.other))
        => last.args[1].Commitment # last.args[2].Commitment

\* C12: for a non-empty field list F, Commit(F) returns a commitment and
\* Verify(Commit(F), F) is true; Verify(c, F) is true exactly when F is not
\* empty and c equals Commit(F); Commit with no fields returns the "no data"
\* error.
C12_CommitVerify ==
    /\ last.op = "Commit"
          => IF input.data = <<>> THEN last.err = CommitErr
             ELSE /\ last.err = Nil
                  /\ last.args[1] = << <<"exp2", SHA256(Concat(input.data))>> >>
                  /\ last.args[2]
    /\ last.op = "CommitVerify"
          => (last.args[1] <=>
                 (/\ input.data # <<>>
                  /\ input.commitment = << <<"exp2", SHA256(Concat(input.data))>> >>))

C12_Witness ==
    /\ last.op = "CommitVerify"
    /\ last.args[1]
    /\ Len(input.data) = 5

\* C13: proof round trip.  For every PHT, Prove over its commitment and hidden
\* fields returns a proof without error and Verify accepts that proof; hence
\* CreateMT(pht) succeeds and VerifyMT on its result and the PHT returns no
\* error.
C13_ProofRoundTrip ==
    /\ last.op = "Prove" => (last.err = Nil /\ last.args[1] = "true")
    /\ last.op = "CreateMT" => (last.err = Nil /\ last.args[2] = Nil)

\* C14: VerifyMT(mt, pht) returns an error whenever mt.PHTHash differs from
\* pht.Hash() or the recipient, amount, payload, kind or gas limit of mt
\* differs from that of pht.
C14_VerifyMTMismatch ==
    (/\ last.op = "VerifyMT"
     /\ \/ input.mt.PHTHash # PHTHash(input.pht)
        \/ input.mt.Recipient # input.pht.Recipient
        \/ input.mt.Value # input.pht.Value
        \/ input.mt.CallData # input.pht.CallData
        \/ input.mt.TxType # input.pht.TxType
        \/ input.mt.GasLimit # input.pht.GasLimit)
        => IsError(last.err)

\* C15: ValidateMT accepts exactly the MTs that have a non-empty proof, a
\* non-zero timestamp, a non-negative amount and a non-zero gas limit; in
\* particular an MT made from a PHT with non-negative amount and non-zero gas
\* limit passes whatever the PHT's TxHash.
C15_ValidateMTShape ==
    last.op = "ValidateMT"
        => ((last.err = Nil) <=>
               (/\ Len(input.mt.Proof) > 0
                /\ input.mt.Timestamp # 0
                /\ input.mt.Value >= 0
                /\ input.mt.GasLimit # 0))

\* the commitment of the hidden fields a PHT carries
CommitmentOf(pht) ==
    Commit(HiddenData(pht.Recipient, pht.Value, pht.CallData,
                      pht.TxType, pht.GasLimit)).commitment

\* C16: every PHT of a B1 block that Prepare cached carries the commitment of
\* its own hidden fields, and ValidatePHT returns an error for a PHT whose
\* commitment is not the commitment of its hidden fields.
C16_CommitmentInvariant ==
    /\ \A hash \in DOMAIN b1Blocks :
           \A i \in 1..Len(b1Blocks[hash].PHTs) :
               b1Blocks[hash].PHTs[i].Commitment = CommitmentOf(b1Blocks[hash].PHTs[i])
    /\ (/\ last.op = "ValidatePHT"
        /\ last.args[1].Commitment # CommitmentOf(last.args[1]))
           => last.err = "invalid commitment"

\* ValidatePHT has refused a PHT of a cached block of two whose amount was
\* assigned after the commitment was made
C16_Witness ==
    /\ last.op = "ValidatePHT"
    /\ last.err = "invalid commitment"
    /\ \E hash \in DOMAIN b1Blocks :
           /\ Len(b1Blocks[hash].PHTs) = 2
           /\ \E i \in 1..2 :
                  last.args[1] = [b1Blocks[hash].PHTs[i] EXCEPT !.Value = @ + 1]

Written(op) ==
    IF op = "SetB1Block" THEN b1Blocks
    ELSE IF op = "SetB2Block" THEN b2Blocks
    ELSE IF op = "SetPHT" THEN phtCache
    ELSE mtCache

\* C18: when a new key is inserted into a store that is at capacity, exactly
\* one entry is evicted, it is a stored entry of smallest Timestamp, and the
\* inserted entry is present afterwards (stated of the four stores whose
\* entries carry a Timestamp).
C18_EvictOldest ==
    [][\A op \in {"SetB1Block", "SetB2Block", "SetPHT", "SetMT"} :
          LET before == Written(op)
              after == Written(op)'
              key == last'.args[1]
          IN  (/\ last'.op = op
               /\ key \notin DOMAIN before
               /\ Cardinality(DOMAIN before) >= CacheCapacity)
                  => /\ key \in DOMAIN after
                     /\ after[key] = last'.args[2]
                     /\ \E gone \in DOMAIN before :
                           /\ DOMAIN after = ((DOMAIN before) \ {gone}) \cup {key}
                           /\ \A k \in DOMAIN before :
                                  before[gone].Timestamp <= before[k].Timestamp
                           /\ \A k \in (DOMAIN before) \ {gone} :
                                  after[k] = before[k]]_vars

\* C19: after any sequence of SetB1Block, SetB2Block, SetPHT, SetMT and
\* SetCommitment calls, with entries of any timestamps, each of the five
\* stores holds at most maxSize entries.
C19_Bounded ==
    /\ Cardinality(DOMAIN b1Blocks) <= CacheCapacity
    /\ Cardinality(DOMAIN b2Blocks) <= CacheCapacity
    /\ Cardinality(DOMAIN phtCache) <= CacheCapacity
    /\ Cardinality(DOMAIN mtCache) <= CacheCapacity
    /\ Cardinality(DOMAIN commitmentCache) <= CacheCapacity

\* the Get* method that reads the store a Set* method writes
GetOf(op) ==
    IF op = "SetB1Block" THEN "GetB1Block"
    ELSE IF op = "SetB2Block" THEN "GetB2Block"
    ELSE IF op = "SetPHT" THEN "GetPHT"
    ELSE IF op = "SetMT" THEN "GetMT"
    ELSE "GetCommitment"

\* C20: in each store, a Get immediately after Set(k, v) returns exactly v and
\* reports it present; after Clear all five stores are empty and a Get
\* reports absent for every key.
C20_GetAfterSet ==
    [][/\ (/\ last.op \in {"SetB1Block", "SetB2Block", "SetPHT", "SetMT",
                           "SetCommitment"}
           /\ last'.op = GetOf(last.op)
           /\ last'.args[1] = last.args[1])
              => (last'.args[3] /\ last'.args[2] = last.args[2])
       /\ last'.op = "Clear"
              => /\ b1Blocks' = <<>> /\ b2Blocks' = <<>> /\ phtCache' = <<>>
                 /\ mtCache' = <<>> /\ commitmentCache' = <<>>
       /\ (/\ last.op = "Clear"
           /\ last'.op \in {"GetB1Block", "GetB2Block", "GetPHT", "GetMT",
                            "GetCommitment"})
              => ~last'.args[3]]_vars

\* a Get has returned the PHT that the Set before it stored while evicting
\* another from a full store
C20_Witness ==
    /\ last.op = "GetPHT"
    /\ last.args[3]
    /\ last.args[2] = CachePHT(CacheCapacity)
    /\ Cardinality(DOMAIN phtCache) = CacheCapacity
    /\ \A k \in DOMAIN phtCache : phtCache[k].Timestamp >= CacheCapacity

\* goroutine g is inside a method body that inserts into (and may evict from)
\* the cache
Mutating(g) == pc[g].at = "body" /\ CacheAccess(pc[g].op) = "insert"

\* goroutine g is inside a method body that only looks the cache up
Looking(g) == pc[g].at = "body" /\ CacheAccess(pc[g].op) = "lookup"

\* C21: under every interleaving of Prepare, Finalize, ValidateBlock,
\* GetMEVScore and GetDetectedAttacks, a goroutine that is mutating the cache
\* holds the engine lock exclusively and no other goroutine is mutating or
\* looking the cache up at that time; a goroutine looking it up holds the
\* lock at least shared.
C21_CacheExclusion ==
    \A g \in Goroutines :
        /\ Mutating(g) =>
              /\ mu.writer = g
              /\ \A h \in Goroutines \ {g} : ~Mutating(h) /\ ~Looking(h)
        /\ Looking(g) => (g \in mu.readers \/ mu.writer = g)

\* one goroutine is inside Prepare or Finalize while the other waits at its
\* Lock or RLock, after an earlier Prepare has put a block in the cache
C21_Witness ==
    /\ DOMAIN b1Blocks # {}
    /\ \E g \in Goroutines, h \in Goroutines :
          /\ g # h
          /\ Mutating(g)
          /\ pc[h].at = "lock"

\* the cache holds the pair a successful Prepare and Finalize leave for this
\* reveal block: its own record and the commit block its record refers to
CachedPair(block) ==
    /\ ~block.nil
    /\ getBlockType(block.Header) = 2
    /\ HeaderHash(block.Header) \in DOMAIN b2Blocks
    /\ b2Blocks[HeaderHash(block.Header)].B1BlockHash \in DOMAIN b1Blocks

\* the parent commit block of a reveal block whose pair is cached
ParentOf(block) ==
    BlockOf(b1Blocks[b2Blocks[HeaderHash(block.Header)].B1BlockHash].Header)

\* C29: with a reveal block and its parent commit block cached, GetMEVScore
\* returns for the reveal block the score it returns for the parent, and
\* GetDetectedAttacks the labels it returns for the parent.
C29_SameAnalysis ==
    /\ (last.op = "GetMEVScore" /\ CachedPair(last.args[1])) =>
          /\ last.err = Nil
          /\ last.args[2] = GetMEVScore(ParentOf(last.args[1]), b1Blocks, b2Blocks).score
    /\ (last.op = "GetDetectedAttacks" /\ CachedPair(last.args[1])) =>
          /\ last.err = Nil
          /\ last.args[2] =
                GetDetectedAttacks(ParentOf(last.args[1]), b1Blocks, b2Blocks).attacks

\* GetDetectedAttacks returned a label for a reveal block whose parent the
\* reveal block validates against
C29_Witness ==
    /\ last.op = "GetDetectedAttacks"
    /\ CachedPair(last.args[1])
    /\ last.args[2] # <<>>
    /\ getBlockType(ParentOf(last.args[1]).Header) = 1
    /\ B2Validate(b2Blocks[HeaderHash(last.args[1].Header)],
                  b1Blocks[b2Blocks[HeaderHash(last.args[1].Header)].B1BlockHash],
                  now) = Nil

\* the cache holds no record for this block: the block is nil, or nothing is
\* cached under its hash for its type
NoRecord(block) ==
    \/ block.nil
    \/ getBlockType(block.Header) \notin {1, 2}
    \/ getBlockType(block.Header) = 1 /\ HeaderHash(block.Header) \notin DOMAIN b1Blocks
    \/ getBlockType(block.Header) = 2 /\ HeaderHash(block.Header) \notin DOMAIN b2Blocks

\* goroutine g returns from the body of the method op in this step
Returns(g, op) ==
    /\ pc[g] = [op |-> op, at |-> "body"]
    /\ pc'[g].at = "deferred"

\* C30: for a block with no cached record, a nil block included, GetMEVScore
\* returns 0.0 and GetDetectedAttacks returns the empty list, without
\* failing.
C30_UncachedBlock ==
    [][\A g \in Goroutines :
          /\ (Returns(g, "GetMEVScore") /\ NoRecord(last'.args[1])) =>
                (last'.err = Nil /\ last'.args[2] = 0)
          /\ (Returns(g, "GetDetectedAttacks") /\ NoRecord(last'.args[1])) =>
                (last'.err = Nil /\ last'.args[2] = <<>>)]_vars

\* the same for blocks that are not nil
C30_UncachedNonNil ==
    [][\A g \in Goroutines :
          /\ (Returns(g, "GetMEVScore") /\ NoRecord(last'.args[1])
                /\ ~last'.args[1].nil) =>
                (last'.err = Nil /\ last'.args[2] = 0)
          /\ (Returns(g, "GetDetectedAttacks") /\ NoRecord(last'.args[1])
                /\ ~last'.args[1].nil) =>
                (last'.err = Nil /\ last'.args[2] = <<>>)]_vars

\* C28: every MEV score lies in [0, 1]: the score of AnalyzeMEVRisk, the
\* score of PHTManager.GetMEVScore, and the score of DetectMEV for any batch,
\* the empty one included.
C28_ScoreRange ==
    last.op \in {"AnalyzeMEVRisk", "PHTGetMEVScore", "DetectMEV"} =>
        (0 <= last.args[2] /\ last.args[2] <= ScoreOne)

\* DetectMEV scored a full batch 0: each of its PHTs matches five patterns
\* whose penalties add up to 1.0
C28_Witness ==
    /\ last.op = "DetectMEV"
    /\ Len(last.args[1]) = MaxBatch
    /\ last.args[2] = 0

\* C22: whenever at least one validator is active (positive stake, whatever
\* reputation UpdateReputation has left it), SelectProposer returns an active
\* validator and never an error.
C22_ProposerFound ==
    [][(last'.op = "SelectProposer" /\ Active(validators) # {}) =>
          (last'.err = Nil /\ last'.args[1] \in Active(validators))]_vars

\* C23: SelectProposer never returns an identity that is unregistered or
\* inactive; it returns an error when the registry is empty or holds no
\* active validator; with exactly one validator registered, and that one
\* active, it returns that validator.
C23_ProposerRegistered ==
    [][last'.op = "SelectProposer" =>
          /\ last'.err = Nil => last'.args[1] \in Active(validators)
          /\ Active(validators) = {} => last'.err # Nil
          /\ (Cardinality(DOMAIN validators) = 1 /\ Active(validators) # {}) =>
                (last'.err = Nil /\ last'.args[1] \in DOMAIN validators)]_vars

\* the first two parts of C23 alone
C23_NeverUnregistered ==
    [][last'.op = "SelectProposer" =>
          /\ last'.err = Nil => last'.args[1] \in Active(validators)
          /\ Active(validators) = {} => last'.err # Nil]_vars

\* C24: after any sequence of AddValidator, UpdateStake, UpdateReputation,
\* UpdateLastBlock and RemoveValidator, every registered validator is active
\* exactly when its stake is at least MinStake.
C24_ActiveIffStaked ==
    \A a \in DOMAIN validators :
        validators[a].IsActive <=> validators[a].Stake >= MinStake

\* UpdateLastBlock has just been called on a validator that an earlier
\* UpdateStake left below MinStake, another validator being active
C24_Witness ==
    /\ last.op = "UpdateLastBlock"
    /\ last.args[1] \in DOMAIN validators
    /\ ~validators[last.args[1]].IsActive
    /\ validators[last.args[1]].LastBlock = last.args[2]
    /\ Active(validators) # {}

\* old + d as an integer, capped at 1000 and -1000
CappedSum(old, d) ==
    IF d.base = "max" THEN 1000
    ELSE IF d.base = "min" THEN -1000
    ELSE IF old + d.off > 1000 THEN 1000
    ELSE IF old + d.off < -1000 THEN -1000
    ELSE old + d.off

\* C25: a new validator's reputation is 100; UpdateReputation sets the
\* reputation to the old one plus the delta, capped to [-1000, 1000], for
\* every 64-bit delta, so that a non-negative delta never lowers it and a
\* non-positive one never raises it; the reputation is always in
\* [-1000, 1000].
C25_ReputationCapped ==
    [][/\ (last'.op = "AddValidator" /\ last'.err = Nil) =>
              validators'[last'.args[1]].Reputation = 100
       /\ (last'.op = "UpdateReputation" /\ last'.args[1] \in DOMAIN validators) =>
              validators'[last'.args[1]].Reputation =
                  CappedSum(validators[last'.args[1]].Reputation, last'.args[2])
       /\ \A a \in DOMAIN validators' :
              /\ validators'[a].Reputation >= -1000
              /\ validators'[a].Reputation <= 1000]_vars

\* the first and the last part of C25 alone
C25_ReputationRange ==
    [][/\ (last'.op = "AddValidator" /\ last'.err = Nil) =>
              validators'[last'.args[1]].Reputation = 100
       /\ \A a \in DOMAIN validators' :
              /\ validators'[a].Reputation >= -1000
              /\ validators'[a].Reputation <= 1000]_vars

\* C26: AddValidator with a stake below MinStake or with MaxValidators
\* registered, and RemoveValidator and UpdateStake on an unregistered
\* address, return an error; a registry operation that returns an error
\* leaves the registry as it was; the registry never holds more than
\* MaxValidators validators.
C26_FailuresChangeNothing ==
    [][/\ (last'.op = "AddValidator" /\ last'.args[2] < MinStake) => last'.err # Nil
       /\ (last'.op = "AddValidator"
              /\ Cardinality(DOMAIN validators) >= MaxValidators) => last'.err # Nil
       /\ (last'.op \in {"RemoveValidator", "UpdateStake"}
              /\ last'.args[1] \notin DOMAIN validators) => last'.err # Nil
       /\ (last'.op \in {"AddValidator", "RemoveValidator", "UpdateStake"}
              /\ last'.err # Nil) => validators' = validators
       /\ Cardinality(DOMAIN validators') <= MaxValidators]_vars

\* AddValidator has just been refused for a new address because MaxValidators
\* validators are registered
C26_Witness ==
    /\ last.op = "AddValidator"
    /\ last.err = "maximum validators reached"
    /\ last.args[1] \notin DOMAIN validators
    /\ Cardinality(DOMAIN validators) = MaxValidators

\* C27: SelectValidators(count) returns, given a fair random source, and what
\* it returns holds exactly min(count, number of active validators)
\* identities, pairwise distinct, each a registered active validator; it is
\* empty when count <= 0 or no validator is active.
C27_SelectValidators ==
    /\ [](( last.op = "SelectValidators" /\ last.err = Nil) =>
            LET count == last.args[1]
                result == last.args[2]
                active == Cardinality(Active(validators))
            IN  /\ Len(result) = (IF count <= 0 THEN 0
                                  ELSE IF count < active THEN count ELSE active)
                /\ \A i \in DOMAIN result, j \in DOMAIN result :
                      i # j => result[i] # result[j]
                /\ \A i \in DOMAIN result : result[i] \in Active(validators))
    /\ (selecting.running ~> ~selecting.running)

\* asked for more validators than are active, SelectValidators returned every
\* active one, as many as the registry can hold
C27_Witness ==
    /\ last.op = "SelectValidators"
    /\ last.err = Nil
    /\ last.args[1] > Cardinality(Active(validators))
    /\ Len(last.args[2]) = MaxValidators

\* C31: structural block validation accepts blocks with empty transaction
\* lists: a commit block with a header, block type 1, MEV score 0.8, the
\* current timestamp and an empty PHT list passes B1Block.Validate, and a
\* reveal block with a header, block type 2, an empty MT list, the commit
\* block's BlockHash as B1BlockHash and a timestamp one second later passes
\* B2Block.Validate against it.
C31_EmptyBlocksPass ==
    (/\ last.op = "BlockValidate"
     /\ last.args[1].Header # NilHeader
     /\ last.args[1].BlockType = 1
     /\ last.args[1].MEVScore = (80 * ScoreOne) \div 100
     /\ last.args[1].Timestamp = now
     /\ last.args[1].PHTs = <<>>
     /\ last.args[2].Header # NilHeader
     /\ last.args[2].BlockType = 2
     /\ last.args[2].MTs = <<>>
     /\ last.args[2].B1BlockHash = last.args[1].BlockHash
     /\ last.args[2].Timestamp = last.args[1].Timestamp + 1)
    => (last.err = Nil /\ last.args[3] = Nil)

\* C32: DetectMEV on a batch containing a PHT with fee price 10 gwei, amount
\* 1 ETH and a non-empty payload returns a non-empty list of detected attacks.
C32_TestPHTLabelled ==
    (/\ last.op = "DetectMEV"
     /\ \E i \in 1..Len(last.args[1]) :
           /\ last.args[1][i].GasPrice = 10
           /\ last.args[1][i].Value = 1000
           /\ Len(last.args[1][i].CallData) > 0)
    => last.args[3] # <<>>

\* C33: SelectProposer(round) is determined by the round number and the
\* registry contents: two calls with the same round number on the same
\* registry state return the same identity.
C33_SameRoundSameProposer ==
    last.op = "SelectProposerTwice" => last.args[2] = last.args[3]

\* the store a Set* method writes, the commitment store included
StoreWritten(op) == IF op = "SetCommitment" THEN commitmentCache ELSE Written(op)

\* C40: re-inserting a key that is already present in a store (SetB1Block,
\* SetB2Block, SetPHT, SetMT, SetCommitment) only replaces that key's value:
\* the store's key set is unchanged and no other entry is evicted, also when
\* the store is at capacity.
C40_ReinsertKeepsKeys ==
    [][\A op \in {"SetB1Block", "SetB2Block", "SetPHT", "SetMT", "SetCommitment"} :
          LET before == StoreWritten(op)
              after == StoreWritten(op)'
              key == last'.args[1]
          IN  (last'.op = op /\ key \in DOMAIN before)
                  => /\ DOMAIN after = DOMAIN before
                     /\ after[key] = last'.args[2]
                     /\ \A k \in (DOMAIN before) \ {key} :
                            after[k] = before[k]]_vars

\* C40 below capacity: re-inserting a present key into a store that holds
\* fewer than maxSize entries replaces the value and nothing else.
C40_BelowCapacity ==
    [][\A op \in {"SetB1Block", "SetB2Block", "SetPHT", "SetMT", "SetCommitment"} :
          LET before == StoreWritten(op)
              after == StoreWritten(op)'
              key == last'.args[1]
          IN  (/\ last'.op = op
               /\ key \in DOMAIN before
               /\ Cardinality(DOMAIN before) < CacheCapacity)
                  => /\ DOMAIN after = DOMAIN before
                     /\ after[key] = last'.args[2]
                     /\ \A k \in (DOMAIN before) \ {key} :
                            after[k] = before[k]]_vars

C36_ValidWhileConfigKept ==
    \A hash \in DOMAIN b1Blocks :
        b1Blocks[hash].MEVScore >= config.MinMEVScore
            => validateB1Block(hash, config.MinMEVScore, b1Blocks) = Nil

\* C36 for batches of positive fee price under the admission configuration
C36_ValidPaidBatches ==
    \A hash \in DOMAIN b1Blocks :
        (/\ b1Blocks[hash].MEVScore >= config.MinMEVScore
         /\ \A i \in 1..Len(b1Blocks[hash].PHTs) : b1Blocks[hash].PHTs[i].GasPrice > 0)
            => validateB1Block(hash, config.MinMEVScore, b1Blocks) = Nil

\* C37: a Prepare or Finalize call that returns an error has no side effect:
\* the engine's cache is unchanged and the caller's header, its Extra bytes
\* included, is as it was before the call.
C37_FailedCallNoEffect ==
    [][(last'.op \in {"Prepare", "Finalize"} /\ IsError(last'.err))
          => /\ b1Blocks' = b1Blocks
             /\ b2Blocks' = b2Blocks
             /\ last'.header = last'.given]_vars

\* C37, the cache alone: a Prepare or Finalize call that returns an error
\* leaves both block stores as they were.
C37_FailedCallKeepsCache ==
    [][(last'.op \in {"Prepare", "Finalize"} /\ IsError(last'.err))
          => (b1Blocks' = b1Blocks /\ b2Blocks' = b2Blocks)]_vars

\* the read accessors of the registry
Accessors ==
    {"GetValidator", "GetAllValidators", "GetActiveValidators", "GetTopValidators"}

\* C39: validator records handed out by GetValidator, GetAllValidators,
\* GetActiveValidators and GetTopValidators are copies: no caller holds a
\* registry-owned record once the accessor has returned, and assigning to a
\* returned record never changes the registry.
C39_ReadsHandOutCopies ==
    [][/\ last'.op \in Accessors => \A handle \in last'.args[1] : ~handle.shared
       /\ last'.op = "Assign" => validators' = validators]_vars

\* C39 for the three accessors that build their result from new structs:
\* their records are copies and assigning to one leaves the registry alone.
C39_CopyingAccessors ==
    [][/\ last'.op \in Accessors \ {"GetTopValidators"}
            => \A handle \in last'.args[1] : ~handle.shared
       /\ (last.op \in Accessors \ {"GetTopValidators"} /\ last'.op = "Assign")
            => validators' = validators]_vars

\* goroutine g holds mutex l, exclusively or shared
Holding(g, l) == mu[l].writer = g \/ g \in mu[l].readers

\* goroutine g is inside a Lock / RLock call on mutex l
Requesting(g, l) ==
    /\ pc[g].steps # <<>>
    /\ Head(pc[g].steps)[1] \in {"Lock", "RLock"}
    /\ Head(pc[g].steps)[2] = l

\* C38: no interleaving of concurrent calls to the engine, the validator
\* manager and the MEV detector deadlocks: while some call is under way, some
\* call under way can take its next step; a goroutine that requests the
\* engine's lock holds no lock, one that requests the manager's or the
\* detector's lock holds at most the engine's; and a goroutine that has
\* returned holds no lock.
C38_NoDeadlock ==
    /\ (\E g \in Callers : pc[g].steps # <<>>)
           => \E g \in Callers : pc[g].steps # <<>> /\ Ready(g)
    /\ \A g \in Callers :
           /\ Requesting(g, "p.mu") => \A l \in Mutexes : ~Holding(g, l)
           /\ (Requesting(g, "v.mu") \/ Requesting(g, "m.mu"))
                  => (~Holding(g, "v.mu") /\ ~Holding(g, "m.mu"))
           /\ pc[g].steps = <<>>
                  => \A l \in Mutexes : ~Holding(g, l) /\ g \notin mu[l].pending

\* a goroutine inside UpdateValidatorReputation holds the engine's lock and
\* has announced its Lock on the manager, which a reader still holds, while a
\* third goroutine waits for the engine's lock
C38_Witness ==
    \E g \in Callers, h \in Callers, k \in Callers :
        /\ mu["p.mu"].writer = g
        /\ Requesting(g, "v.mu")
        /\ g \in mu["v.mu"].pending
        /\ h \in mu["v.mu"].readers
        /\ Requesting(k, "p.mu")
        /\ ~Ready(g)
        /\ ~Ready(k)

C35_EngineParentCached ==
    \A k \in DOMAIN b2Blocks : b2Blocks[k].B1BlockHash \in DOMAIN b1Blocks

\* C34: for each cached commit block at most one cached reveal block refers
\* to it.
C34_OneRevealPerCommit ==
    \A k \in DOMAIN b2Blocks, j \in DOMAIN b2Blocks :
        b2Blocks[k].B1BlockHash = b2Blocks[j].B1BlockHash => k = j

\* a Finalize call has returned without error or panic, or the engine's cache
\* holds a reveal block
C34_Finalized == (last.op = "Finalize" /\ last.err = Nil) \/ DOMAIN b2Blocks # {}

====
